---- MODULE Spec2Model ----
(***************************************************************************)
(* Decision engine of the harness CLI: the guardrail command-policy        *)
(* matcher with alias resolution (src/guardrails), the loop guard, the     *)
(* optimization delta classifier with its trace scan and report renderer   *)
(* (src/main.rs), the recommendation ranker (src/types/report.rs), the     *)
(* category scorer, score card and finding generator (src/analyze,         *)
(* src/types/scoring.rs) and the apply sequence (src/generator/writer.rs). *)
(*                                                                         *)
(* Strings are sequences of symbols.  A symbol is either a whitespace      *)
(* character or a chunk of non-whitespace characters, so that two adjacent *)
(* chunks form one longer token ("rm" followed by "-rf" without a blank is *)
(* the single token "rm-rf").  f32 values are modelled as exact rationals  *)
(* <<numerator, denominator>> in lowest terms.                             *)
(***************************************************************************)
EXTENDS Integers, Sequences, FiniteSets, TLC

VARIABLES
    \* command-policy matcher: one call of is_forbidden_with_policy
    policy,          \* CommandPolicy {forbidden, aliases}
    cmd,             \* the candidate command string
    verdict,         \* <<>> before the call, <<b>> after it
    \* guardrails::validate_with_config
    config,          \* Option<&HarnessConfig>
    commands,        \* &[&str]
    planned_edits,   \* u32
    validation,      \* <<>> before the call, <<result>> after it
    \* optimization delta classifier
    profile,         \* which family of trace records the trace directory holds
    traces,          \* Vec<RecentTraceRecord> handed to compute_optimize_delta
    thresholds,      \* <<>> or <<OptimizationThresholds>> of the last run
    delta,           \* <<>> or <<OptimizeDelta>> of the last run
    \* recommendation ranker
    candidates,      \* the recommendations in the order they were pushed
    recommendations, \* HarnessReport.recommendations, sorted in place
    ranked,          \* TRUE once sort_recommendations has run
    \* category scorer, score card finalizer and finding generator
    model,           \* RepoModel: the signals of the scanned repository
    loaded,          \* Option<HarnessConfig> as load_config returned it
    report,          \* <<>> or <<HarnessReport>> returned by analyze
    raw_card,        \* a ScoreCard before finalize
    weights,         \* the weight vector handed to finalize
    card,            \* <<>> or <<ScoreCard>> returned by finalize
    \* alias expansion, one iteration of its loop at a time
    expansion,       \* locals of expand_aliases: current, seen, iterations, returned
    \* generator::writer::execute_apply
    apply_cmd,       \* ApplyCommand: allow_dirty, plan_all, apply_mode, yes
    apply_world,     \* what the call finds: working tree, plan, files, answer
    apply_pc,        \* the statement execute_apply is at
    apply_loaded,    \* Option<HarnessConfig> returned by load_config
    apply_plan,      \* Vec<String>: the recommendation ids of the plan
    apply_changes,   \* Vec<PlannedChange> once build_changes has run
    apply_result,    \* <<>> or <<Result>> once execute_apply has returned
    apply_steps,     \* the checks passed and the files written, in order
    \* the optimize command: trace scan and report
    trace_lines,     \* the lines of the trace file
    scan,            \* <<>> or <<Result<TraceData>>> of scan_traces
    rendered,        \* <<>> or <<text>> of render_optimize_report
    \* the analyze, lint and suggest commands
    cli_args,        \* the command and its options
    worktree,        \* the repository the command runs on
    config_files,    \* the global, repository and local configuration files
    cli_outcome      \* <<>> or <<what run returned and printed>>

policyVars == <<policy, cmd, verdict>>
validateVars == <<config, commands, planned_edits, validation>>
deltaVars == <<profile, traces, thresholds, delta>>
sortVars == <<candidates, recommendations, ranked>>
analyzeVars == <<model, loaded, report>>
cardVars == <<raw_card, weights, card>>
applyVars == <<apply_cmd, apply_world, apply_pc, apply_loaded, apply_plan, apply_changes,
               apply_result, apply_steps>>
scanVars == <<trace_lines, scan, rendered>>
commandVars == <<cli_args, worktree, config_files, cli_outcome>>
vars == <<policy, cmd, verdict, config, commands, planned_edits, validation,
          profile, traces, thresholds, delta, candidates, recommendations, ranked,
          model, loaded, report, raw_card, weights, card, expansion,
          apply_cmd, apply_world, apply_pc, apply_loaded, apply_plan, apply_changes,
          apply_result, apply_steps,
          trace_lines, scan, rendered,
          cli_args, worktree, config_files, cli_outcome>>

----------------------------------------------------------------------------
(* Option<T> *)
None == <<>>
Some(x) == <<x>>
IsSome(o) == o # <<>>
Unwrap(o) == o[1]

----------------------------------------------------------------------------
(* Strings and whitespace *)

SP == " "
TAB == "\t"
Whitespace == {SP, TAB}

RECURSIVE split_from(_, _, _, _)
split_from(s, i, tok, acc) ==
    IF i > Len(s)
    THEN IF tok = <<>> THEN acc ELSE Append(acc, tok)
    ELSE IF s[i] \in Whitespace
         THEN split_from(s, i + 1, <<>>, IF tok = <<>> THEN acc ELSE Append(acc, tok))
         ELSE split_from(s, i + 1, Append(tok, s[i]), acc)

\* str::split_whitespace: the maximal whitespace-free runs, in order
split_whitespace(s) == split_from(s, 1, <<>>, <<>>)

RECURSIVE join(_, _)
\* [&str]::join(sep)
join(parts, sep) ==
    IF parts = <<>> THEN <<>>
    ELSE IF Len(parts) = 1 THEN parts[1]
    ELSE parts[1] \o sep \o join(Tail(parts), sep)

\* normalize: split on whitespace and join with single blanks
normalize(input) == join(split_whitespace(input), <<SP>>)

----------------------------------------------------------------------------
(* Command policy matcher, src/guardrails/command_policy.rs *)

MaxAliasHops == 8

DefaultForbidden ==
    << <<"git", SP, "push", SP, "--force">>,
       <<"git", SP, "reset", SP, "--hard">>,
       <<"rm", SP, "-rf">>,
       <<"sudo", SP, "rm", SP, "-rf">> >>

EmptyAliases == [k \in {} |-> <<>>]

\* impl Default for CommandPolicy
DefaultPolicy == [forbidden |-> DefaultForbidden, aliases |-> EmptyAliases]

Min(a, b) == IF a <= b THEN a ELSE b

starts_with_tokens(left, right) ==
    /\ Len(left) >= Len(right)
    /\ \A i \in 1..Min(Len(left), Len(right)) : left[i] = right[i]

command_matches_rule_prefix_only(command, rule) ==
    LET command_tokens == split_whitespace(command)
        rule_tokens == split_whitespace(rule)
    IN  IF command_tokens = <<>> \/ rule_tokens = <<>>
        THEN FALSE
        ELSE starts_with_tokens(command_tokens, rule_tokens)

command_matches(command, rule) ==
    LET command_tokens == split_whitespace(command)
        rule_tokens == split_whitespace(rule)
    IN  IF command_tokens = <<>> \/ rule_tokens = <<>>
        THEN FALSE
        ELSE \/ starts_with_tokens(command_tokens, rule_tokens)
             \/ starts_with_tokens(rule_tokens, command_tokens)

RECURSIVE expand_loop(_, _, _, _)
\* the body of `for _ in 0..8` with `left` iterations still to run
expand_loop(current, seen, left, aliases) ==
    IF left = 0 THEN current
    ELSE LET parts == split_whitespace(current) IN
         IF parts = <<>> THEN current
         ELSE LET head == Head(parts)
                  tail == join(Tail(parts), <<SP>>)
              IN  IF head \in seen THEN current
                  ELSE IF head \notin DOMAIN aliases THEN current
                  ELSE expand_loop(
                         IF tail = <<>>
                         THEN normalize(aliases[head])
                         ELSE normalize(aliases[head] \o <<SP>> \o tail),
                         seen \cup {head}, left - 1, aliases)

expand_aliases_head_only(command, aliases) ==
    LET parts == split_whitespace(command) IN
    expand_loop(IF parts = <<>> THEN command ELSE Head(parts), {}, MaxAliasHops, aliases)

expand_aliases(command, aliases) == expand_loop(command, {}, MaxAliasHops, aliases)

is_forbidden_with_policy_unexpanded(c, p) ==
    LET expanded == normalize(c) IN
    IF expanded = <<>> THEN FALSE
    ELSE \E i \in DOMAIN p.forbidden : command_matches(expanded, normalize(p.forbidden[i]))

is_forbidden_with_policy(c, p) ==
    LET expanded == expand_aliases(normalize(c), p.aliases) IN
    IF expanded = <<>> THEN FALSE
    ELSE \E i \in DOMAIN p.forbidden : command_matches(expanded, normalize(p.forbidden[i]))

is_forbidden(c) == is_forbidden_with_policy(c, DefaultPolicy)

----------------------------------------------------------------------------
(* Inputs of the command policy matcher *)

MaxCmdLen == 3
MaxRules == 2

\* all strings of at most n symbols over the alphabet
Strings(alphabet, n) == UNION {[1..k -> alphabet] : k \in 0..n}

CmdSymbols == {SP, "rm", "-rf"}

GitPushForce == <<"git", SP, "push", SP, "--force">>

ExampleCommands ==
    { <<"git", SP, "push", SP, "--force", SP, "origin", SP, "main">>,
      <<"git", SP, "push", SP, "origin", SP, "main">>,
      <<"gpf", SP, "origin", SP, "main">>,
      <<"origin", SP, "gpf">>,
      <<"rm", SP, "-rf", SP, "/tmp/x">>,
      <<TAB, "rm", TAB, SP, "-rf", SP>>,
      <<"cargo", SP, "test">> }

CommandInputs == Strings(CmdSymbols, MaxCmdLen) \cup ExampleCommands

RuleInputs ==
    { <<>>, <<SP>>, <<"rm">>, <<"rm", SP, "-rf">>, <<SP, "-rf", SP, SP, "rm">> }

ForbiddenInputs == Strings(RuleInputs, MaxRules)

AliasKeys == {<<"rm">>, <<"-rf">>}
AliasTargets == {<<>>, <<"rm">>, <<"-rf">>, <<"-rf", SP, SP, "rm">>}

AliasInputs == UNION {[keys -> AliasTargets] : keys \in SUBSET AliasKeys}

ExamplePolicies ==
    { [forbidden |-> <<GitPushForce>>, aliases |-> EmptyAliases],
      [forbidden |-> <<GitPushForce>>, aliases |-> [k \in {<<"gpf">>} |-> GitPushForce]],
      [forbidden |-> << <<"rm", SP, "-rf">>, GitPushForce >>, aliases |-> EmptyAliases] }

PolicyInputs == [forbidden : ForbiddenInputs, aliases : AliasInputs] \cup ExamplePolicies

----------------------------------------------------------------------------
(* guardrails::validate_with_config, src/guardrails/mod.rs and loop_guard.rs *)

DEFAULT_EDIT_THRESHOLD == 25

detect_loop_with_threshold(edits, threshold) == edits >= threshold

detect_loop(edits) == detect_loop_with_threshold(edits, DEFAULT_EDIT_THRESHOLD)

RECURSIVE push_non_empty(_, _)
\* `for command in list { if !command.is_empty() { forbidden.push(command) } }`
push_non_empty(forbidden, list) ==
    IF list = <<>> THEN forbidden
    ELSE push_non_empty(
           IF Head(list) # <<>> THEN Append(forbidden, Head(list)) ELSE forbidden,
           Tail(list))

\* policy.aliases.insert(alias, target) for every configured alias
insert_aliases(aliases, configured) ==
    [k \in DOMAIN aliases \cup DOMAIN configured |->
        IF k \in DOMAIN configured THEN configured[k] ELSE aliases[k]]

policy_from_config_with_deprecated(cfg) ==
    IF cfg = None THEN DefaultPolicy
    ELSE LET tools == Unwrap(cfg).tools IN
         IF tools = None THEN DefaultPolicy
         ELSE LET t == Unwrap(tools)
                  f1 == IF t.baseline = None THEN DefaultForbidden
                        ELSE push_non_empty(DefaultForbidden, Unwrap(t.baseline).forbidden)
                  f2 == IF t.deprecated = None THEN f1
                        ELSE push_non_empty(push_non_empty(f1, Unwrap(t.deprecated).disabled),
                                            Unwrap(t.deprecated).deprecated)
                  a  == IF t.aliases = None THEN EmptyAliases
                        ELSE insert_aliases(EmptyAliases, Unwrap(t.aliases))
              IN  [forbidden |-> f2, aliases |-> a]

policy_from_config(cfg) ==
    IF cfg = None THEN DefaultPolicy
    ELSE LET tools == Unwrap(cfg).tools IN
         IF tools = None THEN DefaultPolicy
         ELSE LET t == Unwrap(tools)
                  f1 == IF t.baseline = None THEN DefaultForbidden
                        ELSE push_non_empty(DefaultForbidden, Unwrap(t.baseline).forbidden)
                  f2 == IF t.deprecated = None THEN f1
                        ELSE push_non_empty(f1, Unwrap(t.deprecated).disabled)
                  a  == IF t.aliases = None THEN EmptyAliases
                        ELSE insert_aliases(EmptyAliases, Unwrap(t.aliases))
              IN  [forbidden |-> f2, aliases |-> a]

Ok == [kind |-> "Ok"]
ForbiddenToolAccess(c) == [kind |-> "ForbiddenToolAccess", command |-> c]
LoopGuardError ==
    [kind |-> "ConfigParse",
     message |-> "loop guard triggered: planned change count exceeds threshold"]

validate_with_config_loop_first(cmds, edits, cfg) ==
    LET p == policy_from_config(cfg)
        hits == {i \in DOMAIN cmds : is_forbidden_with_policy(cmds[i], p)}
    IN  IF detect_loop(edits) THEN LoopGuardError
        ELSE IF hits # {}
        THEN ForbiddenToolAccess(cmds[CHOOSE i \in hits : \A j \in hits : i <= j])
        ELSE Ok

validate_with_config(cmds, edits, cfg) ==
    LET p == policy_from_config(cfg)
        hits == {i \in DOMAIN cmds : is_forbidden_with_policy(cmds[i], p)}
    IN  IF hits # {}
        THEN ForbiddenToolAccess(cmds[CHOOSE i \in hits : \A j \in hits : i <= j])
        ELSE IF detect_loop(edits) THEN LoopGuardError
        ELSE Ok

validate(cmds, edits) == validate_with_config(cmds, edits, None)

----------------------------------------------------------------------------
(* Inputs of validate_with_config *)

MaxCommands == 2
EditMargin == 2

ApplyPatch == <<"apply_patch">>
GitStatus == <<"git", SP, "status", SP, "--porcelain">>

ToolsInputs ==
    { [baseline |-> None, deprecated |-> None, aliases |-> None],
      [baseline |-> Some([forbidden |-> <<GitPushForce>>]),
       deprecated |-> Some([observe |-> <<>>, deprecated |-> << <<"gpf">> >>, disabled |-> <<>>]),
       aliases |-> Some([k \in {<<"gpf">>} |-> GitPushForce])],
      [baseline |-> Some([forbidden |-> << <<>>, <<"cargo">> >>]),
       deprecated |-> Some([observe |-> <<>>, deprecated |-> <<>>, disabled |-> <<ApplyPatch>>]),
       aliases |-> None],
      [baseline |-> None,
       deprecated |-> Some([observe |-> <<>>, deprecated |-> <<ApplyPatch>>, disabled |-> <<>>]),
       aliases |-> Some([k \in {<<"st">>} |-> GitStatus])],
      [baseline |-> None,
       deprecated |-> Some([observe |-> <<>>, deprecated |-> <<>>, disabled |-> <<ApplyPatch>>]),
       aliases |-> Some([k \in {ApplyPatch} |-> <<"cargo", SP, "test">>])] }

ConfigInputs ==
    {None, Some([tools |-> None])} \cup {Some([tools |-> Some(t)]) : t \in ToolsInputs}

ValidateCommandInputs ==
    { <<>>, GitStatus, <<"st">>, <<"gpf">>, ApplyPatch, <<"cargo", SP, "test">>,
      <<"gpf", SP, "origin", SP, "main">>, <<"rm">>,
      <<"git", SP, "push", SP, "--force", SP, "origin", SP, "main">> }

EditInputs ==
    {0} \cup ((DEFAULT_EDIT_THRESHOLD - EditMargin)..(DEFAULT_EDIT_THRESHOLD + EditMargin))

----------------------------------------------------------------------------
(* Exact rationals <<n, d>> with d > 0 in lowest terms, standing for f32 *)

Abs(x) == IF x < 0 THEN -x ELSE x

RECURSIVE Gcd(_, _)
Gcd(a, b) == IF b = 0 THEN a ELSE Gcd(b, a % b)

Rat(n, d) ==
    LET g == Gcd(Abs(n), Abs(d))
        sign == IF d < 0 THEN -1 ELSE 1
    IN  <<sign * (n \div g), sign * (d \div g)>>

Zero == <<0, 1>>
Hundredths(k) == Rat(k, 100)
RatSub(a, b) == Rat(a[1] * b[2] - b[1] * a[2], a[2] * b[2])
RatDiv(a, b) == Rat(a[1] * b[2], a[2] * b[1])
RatNeg(a) == <<-a[1], a[2]>>
RatAbs(a) == <<Abs(a[1]), a[2]>>
RatLt(a, b) == a[1] * b[2] < b[1] * a[2]
RatLe(a, b) == a[1] * b[2] <= b[1] * a[2]
RatGe(a, b) == RatLe(b, a)

\* f32::EPSILON = 2^-23
F32_EPSILON == <<1, 8388608>>

\* "{:.2}": the value in hundredths, rounded to nearest, ties to even
Fmt2(r) ==
    LET scaled == 100 * r[1]
        q == scaled \div r[2]
        rem2 == 2 * (scaled % r[2])
    IN  IF rem2 < r[2] THEN q
        ELSE IF rem2 > r[2] THEN q + 1
        ELSE IF q % 2 = 0 THEN q ELSE q + 1

----------------------------------------------------------------------------
(* Optimization delta classifier, src/main.rs *)

\* String order of the revision tags (BTreeMap iterates in key order)
RevisionNames == <<"rev-a", "rev-b", "rev-c">>

DefaultAccumulator ==
    [total |-> 0, success |-> 0, steps_sum |-> 0, steps_count |-> 0,
     tokens_sum |-> 0, tokens_count |-> 0, tasks |-> {}, latest_ts |-> None]

add_latest_is_last(acc, trace) ==
    [total |-> acc.total + 1,
     success |-> IF trace.outcome = "success" THEN acc.success + 1 ELSE acc.success,
     steps_sum |-> IF IsSome(trace.steps) THEN acc.steps_sum + Unwrap(trace.steps)
                   ELSE acc.steps_sum,
     steps_count |-> IF IsSome(trace.steps) THEN acc.steps_count + 1 ELSE acc.steps_count,
     tokens_sum |-> IF IsSome(trace.token_est) THEN acc.tokens_sum + Unwrap(trace.token_est)
                    ELSE acc.tokens_sum,
     tokens_count |-> IF IsSome(trace.token_est) THEN acc.tokens_count + 1
                      ELSE acc.tokens_count,
     tasks |-> acc.tasks \cup {trace.task_id},
     latest_ts |-> Some(trace.timestamp)]

\* RevisionAccumulator::add; the sums are f64 and exact for the totals that occur
add(acc, trace) ==
    [total |-> acc.total + 1,
     success |-> IF trace.outcome = "success" THEN acc.success + 1 ELSE acc.success,
     steps_sum |-> IF IsSome(trace.steps) THEN acc.steps_sum + Unwrap(trace.steps)
                   ELSE acc.steps_sum,
     steps_count |-> IF IsSome(trace.steps) THEN acc.steps_count + 1 ELSE acc.steps_count,
     tokens_sum |-> IF IsSome(trace.token_est) THEN acc.tokens_sum + Unwrap(trace.token_est)
                    ELSE acc.tokens_sum,
     tokens_count |-> IF IsSome(trace.token_est) THEN acc.tokens_count + 1
                      ELSE acc.tokens_count,
     tasks |-> acc.tasks \cup {trace.task_id},
     latest_ts |-> IF acc.latest_ts = None THEN Some(trace.timestamp)
                   ELSE IF trace.timestamp > Unwrap(acc.latest_ts)
                        THEN Some(trace.timestamp)
                        ELSE acc.latest_ts]

into_metrics_avg_over_total(acc, revision) ==
    IF acc.latest_ts = None THEN None
    ELSE Some([revision |-> revision,
               total |-> acc.total,
               completion_rate |-> IF acc.total = 0 THEN Zero
                                   ELSE Rat(acc.success, acc.total),
               avg_steps |-> IF acc.total = 0 THEN Zero
                             ELSE Rat(acc.steps_sum, acc.total),
               avg_tokens |-> IF acc.total = 0 THEN Zero
                              ELSE Rat(acc.tokens_sum, acc.total),
               tasks |-> acc.tasks,
               latest_ts |-> Unwrap(acc.latest_ts)])

\* RevisionAccumulator::into_metrics
into_metrics(acc, revision) ==
    IF acc.latest_ts = None THEN None
    ELSE Some([revision |-> revision,
               total |-> acc.total,
               completion_rate |-> IF acc.total = 0 THEN Zero
                                   ELSE Rat(acc.success, acc.total),
               avg_steps |-> IF acc.steps_count = 0 THEN Zero
                             ELSE Rat(acc.steps_sum, acc.steps_count),
               avg_tokens |-> IF acc.tokens_count = 0 THEN Zero
                              ELSE Rat(acc.tokens_sum, acc.tokens_count),
               tasks |-> acc.tasks,
               latest_ts |-> Unwrap(acc.latest_ts)])

compute_task_overlap_over_baseline(a, b) ==
    IF a = {} /\ b = {} THEN Zero
    ELSE Rat(Cardinality(a \cap b), Cardinality(a))

compute_task_overlap(a, b) ==
    IF a = {} /\ b = {} THEN Zero
    ELSE LET intersection == Cardinality(a \cap b)
             union == Cardinality(a \cup b)
         IN  IF union = 0 THEN Zero ELSE Rat(intersection, union)

relative_delta_over_current(baseline, current) ==
    IF RatLt(RatAbs(baseline), F32_EPSILON) THEN Zero
    ELSE IF current = Zero THEN Zero
    ELSE RatDiv(RatSub(current, baseline), current)

relative_delta(baseline, current) ==
    IF RatLt(RatAbs(baseline), F32_EPSILON) THEN Zero
    ELSE RatDiv(RatSub(current, baseline), baseline)

RECURSIVE aggregate(_, _)
\* `for trace in traces { per_revision.entry(revision).or_default().add(trace) }`
aggregate(per_revision, ts) ==
    IF ts = <<>> THEN per_revision
    ELSE LET trace == Head(ts)
             rev == trace.revision
             acc == IF rev \in DOMAIN per_revision THEN per_revision[rev]
                    ELSE DefaultAccumulator
         IN  aggregate([r \in DOMAIN per_revision \cup {rev} |->
                            IF r = rev THEN add(acc, trace) ELSE per_revision[r]],
                       Tail(ts))

RECURSIVE collect_metrics(_, _)
\* per_revision.into_iter().filter_map(into_metrics).collect(): key order
collect_metrics(per_revision, names) ==
    IF names = <<>> THEN <<>>
    ELSE LET rest == collect_metrics(per_revision, Tail(names))
             m == IF Head(names) \in DOMAIN per_revision
                  THEN into_metrics(per_revision[Head(names)], Head(names))
                  ELSE None
         IN  IF m = None THEN rest ELSE <<Unwrap(m)>> \o rest

RECURSIVE insert_by_latest_ts_before_equal(_, _)
insert_by_latest_ts_before_equal(sorted, m) ==
    IF sorted = <<>> THEN <<m>>
    ELSE IF sorted[Len(sorted)].latest_ts < m.latest_ts THEN Append(sorted, m)
    ELSE Append(insert_by_latest_ts_before_equal(SubSeq(sorted, 1, Len(sorted) - 1), m),
                sorted[Len(sorted)])

\* insert m after every element whose key is not greater (stable)
RECURSIVE insert_by_latest_ts(_, _)
insert_by_latest_ts(sorted, m) ==
    IF sorted = <<>> THEN <<m>>
    ELSE IF sorted[Len(sorted)].latest_ts <= m.latest_ts THEN Append(sorted, m)
    ELSE Append(insert_by_latest_ts(SubSeq(sorted, 1, Len(sorted) - 1), m),
                sorted[Len(sorted)])

RECURSIVE sort_from(_, _)
sort_from(sorted, rest) ==
    IF rest = <<>> THEN sorted
    ELSE sort_from(insert_by_latest_ts(sorted, Head(rest)), Tail(rest))

sort_by_latest_ts_unsorted(revisions) == revisions

\* revisions.sort_by(|a, b| a.latest_ts.cmp(&b.latest_ts)): stable, ascending
sort_by_latest_ts(revisions) == sort_from(<<>>, revisions)

InsufficientData == "InsufficientData"
Improvement == "Improvement"
Regression == "Regression"
Neutral == "Neutral"

signal_of_completion_strict(completion_delta, t) ==
    IF RatLt(t.min_uplift_abs, completion_delta) THEN 1
    ELSE IF RatLt(completion_delta, RatNeg(t.min_uplift_abs)) THEN -1
    ELSE 0

signal_of_completion(completion_delta, t) ==
    IF RatGe(completion_delta, t.min_uplift_abs) THEN 1
    ELSE IF RatLe(completion_delta, RatNeg(t.min_uplift_abs)) THEN -1
    ELSE 0

signal_of_cost_inverted(delta_rel, t) ==
    IF RatGe(delta_rel, t.min_uplift_rel) THEN 1
    ELSE IF RatLe(delta_rel, RatNeg(t.min_uplift_rel)) THEN -1
    ELSE 0

signal_of_cost(delta_rel, t) ==
    IF RatLe(delta_rel, RatNeg(t.min_uplift_rel)) THEN 1
    ELSE IF RatGe(delta_rel, t.min_uplift_rel) THEN -1
    ELSE 0

too_few_revisions(revisions) == Len(revisions) < 2

no_revisions_result_without_reason ==
    [status |-> InsufficientData,
     baseline_revision |-> None, current_revision |-> None,
     completion_delta |-> Zero, token_delta_rel |-> Zero, step_delta_rel |-> Zero,
     task_overlap |-> Zero,
     reason |-> None]

\* the result returned when fewer than two revisions have records
no_revisions_result ==
    [status |-> InsufficientData,
     baseline_revision |-> None, current_revision |-> None,
     completion_delta |-> Zero, token_delta_rel |-> Zero, step_delta_rel |-> Zero,
     task_overlap |-> Zero,
     reason |-> Some(<<"need traces from at least two revisions">>)]

baseline_of(revisions) == revisions[Len(revisions) - 1]
current_of(revisions) == revisions[Len(revisions)]

below_min_traces_inclusive(baseline, current, t) ==
    baseline.total <= t.min_traces \/ current.total <= t.min_traces

below_min_traces(baseline, current, t) ==
    baseline.total < t.min_traces \/ current.total < t.min_traces

below_overlap_threshold_never(overlap, t) == FALSE

below_overlap_threshold(overlap, t) == RatLt(overlap, t.task_overlap_threshold)

\* the gated comparison of the two most recent revisions
compare(baseline, current, t) ==
    IF below_min_traces(baseline, current, t)
    THEN [status |-> InsufficientData,
          baseline_revision |-> Some(baseline.revision),
          current_revision |-> Some(current.revision),
          completion_delta |-> Zero, token_delta_rel |-> Zero, step_delta_rel |-> Zero,
          task_overlap |-> Zero,
          reason |-> Some(<<"need at least {} traces per revision (baseline={}, current={})",
                            t.min_traces, baseline.total, current.total>>)]
    ELSE
    LET overlap == compute_task_overlap(baseline.tasks, current.tasks) IN
    IF below_overlap_threshold(overlap, t)
    THEN [status |-> InsufficientData,
          baseline_revision |-> Some(baseline.revision),
          current_revision |-> Some(current.revision),
          completion_delta |-> Zero, token_delta_rel |-> Zero, step_delta_rel |-> Zero,
          task_overlap |-> overlap,
          reason |-> Some(<<"task overlap {:.2} is below threshold {:.2}",
                            Fmt2(overlap), Fmt2(t.task_overlap_threshold)>>)]
    ELSE
    LET completion_delta == RatSub(current.completion_rate, baseline.completion_rate)
        token_delta_rel == relative_delta(baseline.avg_tokens, current.avg_tokens)
        step_delta_rel == relative_delta(baseline.avg_steps, current.avg_steps)
        completion_signal == signal_of_completion(completion_delta, t)
        token_signal == signal_of_cost(token_delta_rel, t)
        step_signal == signal_of_cost(step_delta_rel, t)
        total_signal == completion_signal + token_signal + step_signal
    IN  [status |-> IF total_signal > 0 THEN Improvement
                    ELSE IF total_signal < 0 THEN Regression
                    ELSE Neutral,
         baseline_revision |-> Some(baseline.revision),
         current_revision |-> Some(current.revision),
         completion_delta |-> completion_delta,
         token_delta_rel |-> token_delta_rel,
         step_delta_rel |-> step_delta_rel,
         task_overlap |-> overlap,
         reason |-> IF total_signal = 0
                    THEN Some(<<"changes are below configured uplift thresholds">>)
                    ELSE None]

compute_optimize_delta(ts, t) ==
    LET per_revision == aggregate([r \in {} |-> DefaultAccumulator], ts)
        unsorted == collect_metrics(per_revision, RevisionNames)
    IN  IF too_few_revisions(unsorted) THEN no_revisions_result
        ELSE LET revisions == sort_by_latest_ts(unsorted)
             IN  compare(baseline_of(revisions), current_of(revisions), t)

\* impl Default for OptimizationThresholds
DefaultThresholds ==
    [min_traces |-> 30, min_uplift_abs |-> Hundredths(5), min_uplift_rel |-> Hundredths(10),
     trace_staleness_days |-> 90, task_overlap_threshold |-> Hundredths(50)]

----------------------------------------------------------------------------
(* Inputs of the classifier.  The trace directory holds records of one of   *)
(* four families: `recency` varies revisions and timestamps, `gates` varies *)
(* task ids and record counts, `signals` varies outcomes, steps and token   *)
(* estimates of single records, `averages` varies which records of a        *)
(* revision report steps and tokens.                                        *)

MaxTraces == 3
MaxSignalTraces == 2
MaxMinTraces == 2

Timestamps == {1, 2, 3}
Outcomes == {"success", "failure"}
Costs == {None, Some(1), Some(2)}
\* <<steps, token_est>> of a record of the `averages` family
CostPairs == {<<None, None>>, <<Some(1), None>>, <<None, Some(2)>>, <<Some(2), Some(0)>>}

TraceInputs(pr) ==
    IF pr = "recency" THEN
        [timestamp : Timestamps, task_id : {"task-1"},
         revision : {"rev-a", "rev-b", "rev-c"},
         outcome : Outcomes, steps : {Some(1)}, token_est : {Some(1)}]
    ELSE IF pr = "gates" THEN
        [timestamp : {1}, task_id : {"task-1", "task-2", "task-3"},
         revision : {"rev-a", "rev-b"},
         outcome : Outcomes, steps : {Some(1)}, token_est : {Some(1)}]
    ELSE IF pr = "signals" THEN
        [timestamp : {1}, task_id : {"task-1"}, revision : {"rev-a", "rev-b"},
         outcome : Outcomes, steps : Costs, token_est : Costs]
    ELSE IF pr = "averages" THEN
        {[timestamp |-> 1, task_id |-> "task-1", revision |-> rev, outcome |-> o,
          steps |-> c[1], token_est |-> c[2]] :
            rev \in {"rev-a", "rev-b"}, o \in Outcomes, c \in CostPairs}
    ELSE {}

TraceBound(pr) == IF pr = "signals" THEN MaxSignalTraces ELSE MaxTraces

ThresholdInputs(pr) ==
    IF pr = "recency" THEN
        {[DefaultThresholds EXCEPT !.min_traces = 1]}
    ELSE IF pr = "gates" THEN
        {[DefaultThresholds EXCEPT !.min_traces = n, !.task_overlap_threshold = Hundredths(o)] :
            n \in 1..MaxMinTraces, o \in {0, 50, 100}}
    ELSE IF pr = "signals" THEN
        {[DefaultThresholds EXCEPT !.min_traces = 1, !.min_uplift_abs = Hundredths(u[1]),
                                   !.min_uplift_rel = Hundredths(u[2])] :
            u \in {<<5, 10>>, <<0, 0>>, <<0, 10>>, <<5, 0>>, <<5, 100>>, <<100, 10>>}}
    ELSE IF pr = "averages" THEN
        {[DefaultThresholds EXCEPT !.min_traces = 1]}
    ELSE {}

----------------------------------------------------------------------------
(* Recommendation ranker (src/types/report.rs).  An id is the sequence of  *)
(* its bytes, so that str::cmp is the lexicographic order of sequences.    *)

\* std::cmp::Ordering
Less == -1
Equal == 0
Greater == 1

\* Ord::cmp on integers
cmp(a, b) == IF a < b THEN Less ELSE IF a = b THEN Equal ELSE Greater

\* Ordering::then_with
then_with(first, second) == IF first # Equal THEN first ELSE second

\* Impact::priority
priority(impact) ==
    CASE impact = "High" -> 3
      [] impact = "Medium" -> 2
      [] impact = "Low" -> 1

rank_descending(effort) ==
    CASE effort = "Xs" -> 4
      [] effort = "S" -> 3
      [] effort = "M" -> 2
      [] effort = "L" -> 1

\* Effort::rank
rank(effort) ==
    CASE effort = "Xs" -> 1
      [] effort = "S" -> 2
      [] effort = "M" -> 3
      [] effort = "L" -> 4

alphabetical_cmp_first_byte(a, b) ==
    IF a = <<>> \/ b = <<>> THEN cmp(Len(a), Len(b)) ELSE cmp(Head(a), Head(b))

RECURSIVE alphabetical_cmp(_, _)
\* a.cmp(b) on str: byte-wise lexicographic, a proper prefix is smaller
alphabetical_cmp(a, b) ==
    IF a = <<>> THEN (IF b = <<>> THEN Equal ELSE Less)
    ELSE IF b = <<>> THEN Greater
    ELSE IF Head(a) # Head(b) THEN cmp(Head(a), Head(b))
    ELSE alphabetical_cmp(Tail(a), Tail(b))

\* the closure handed to sort_by
compare_recommendations(a, b) ==
    then_with(cmp(priority(b.impact), priority(a.impact)),
              then_with(cmp(rank(a.effort), rank(b.effort)),
                        alphabetical_cmp(a.id, b.id)))

\* f32::clamp
clamp(x, lo, hi) == IF RatLt(x, lo) THEN lo ELSE IF RatLt(hi, x) THEN hi ELSE x
One == <<1, 1>>

\* Recommendation::new
Recommendation_new(id, title, summary, impact, effort, risk, confidence) ==
    [id |-> id, title |-> title, summary |-> summary, impact |-> impact,
     effort |-> effort, risk |-> risk, confidence |-> clamp(confidence, Zero, One)]

RECURSIVE insert_sorted(_, _)
\* slice::sort_by is a stable sort: an element goes behind every element
\* that does not compare Greater than it
insert_sorted(sorted, r) ==
    IF sorted = <<>> THEN <<r>>
    ELSE IF compare_recommendations(Head(sorted), r) = Greater
         THEN <<r>> \o sorted
         ELSE <<Head(sorted)>> \o insert_sorted(Tail(sorted), r)

RECURSIVE sort_by(_, _)
sort_by(sorted, rest) ==
    IF rest = <<>> THEN sorted
    ELSE sort_by(insert_sorted(sorted, Head(rest)), Tail(rest))

\* HarnessReport::sort_recommendations
sort_recommendations(recs) == sort_by(<<>>, recs)

----------------------------------------------------------------------------
(* Inputs of the ranker *)

MaxRecommendations == 3

\* "a", "ab", "b"
IdInputs == {<<97>>, <<97, 98>>, <<98>>}
ImpactEffortInputs == {<<"High", "Xs">>, <<"Medium", "Xs">>, <<"High", "M">>, <<"Low", "L">>}
\* <<risk, confidence in hundredths>>; 1.5 is clamped by Recommendation::new
RiskConfidenceInputs == {<<"Safe", 60>>, <<"High", 150>>}

\* the more important a candidate, the lower its confidence and the higher
\* its risk; the ids "a" of High/Xs and "b" of Medium/Xs come both ways
RecommendationInputs ==
    {Recommendation_new(id, "title", "summary", ie[1], ie[2],
                        IF priority(ie[1]) = 3 THEN "High" ELSE "Safe",
                        Hundredths(IF priority(ie[1]) = 3 THEN 60 ELSE 150)) :
        id \in IdInputs, ie \in ImpactEffortInputs}
    \cup {Recommendation_new(<<97>>, "title", "summary", "High", "Xs", "Safe", Hundredths(150)),
          Recommendation_new(<<98>>, "title", "summary", "Medium", "Xs", "High", Hundredths(60))}

----------------------------------------------------------------------------
(* Score card (src/types/scoring.rs), configuration weights                *)
(* (src/types/config.rs) and the category scorers (src/analyze)            *)

RatAdd(a, b) == Rat(a[1] * b[2] + b[1] * a[2], a[2] * b[2])
RatMul(a, b) == Rat(a[1] * b[1], a[2] * b[2])

\* ScoreCard::new
ScoreCard_new(context, tools, continuity, verification, repository_quality) ==
    [context |-> context, tools |-> tools, continuity |-> continuity,
     verification |-> verification, repository_quality |-> repository_quality,
     overall |-> Zero]

\* ScoreCard::clamped
clamped(c) ==
    [context |-> clamp(c.context, Zero, One),
     tools |-> clamp(c.tools, Zero, One),
     continuity |-> clamp(c.continuity, Zero, One),
     verification |-> clamp(c.verification, Zero, One),
     repository_quality |-> clamp(c.repository_quality, Zero, One),
     overall |-> clamp(c.overall, Zero, One)]

weighted_overall_unclamped(c, w) ==
    RatAdd(RatAdd(RatAdd(RatAdd(RatAdd(Zero,
        RatMul(c.context, w[1])),
        RatMul(c.tools, w[2])),
        RatMul(c.continuity, w[3])),
        RatMul(c.verification, w[4])),
        RatMul(c.repository_quality, w[5]))

\* ScoreCard::weighted_overall: zip, map and sum over the clamped categories
weighted_overall(c, w) ==
    LET k == clamped(c) IN
    RatAdd(RatAdd(RatAdd(RatAdd(RatAdd(Zero,
        RatMul(k.context, w[1])),
        RatMul(k.tools, w[2])),
        RatMul(k.continuity, w[3])),
        RatMul(k.verification, w[4])),
        RatMul(k.repository_quality, w[5]))

\* ScoreCard::finalize
finalize(c, w) ==
    LET k == clamped(c) IN [k EXCEPT !.overall = weighted_overall(k, w)]

\* HarnessConfig::default_weights
default_weights ==
    <<Hundredths(30), Hundredths(25), Hundredths(20), Hundredths(15), Hundredths(10)>>

\* weights.get(key).unwrap_or(&default)
get_or(map, key, default) == IF key \in DOMAIN map THEN map[key] ELSE default

\* HarnessConfig::weights
config_weights(cfg) ==
    IF cfg.metrics = None THEN default_weights
    ELSE IF Unwrap(cfg.metrics).weights = None THEN default_weights
    ELSE LET w == Unwrap(Unwrap(cfg.metrics).weights) IN
         <<get_or(w, "context", Hundredths(30)),
           get_or(w, "tools", Hundredths(25)),
           get_or(w, "continuity", Hundredths(20)),
           get_or(w, "verification", Hundredths(15)),
           get_or(w, "repository_quality", Hundredths(10))>>

\* `if cond { score += value }`
bonus(score, cond, value) == IF cond THEN RatAdd(score, Hundredths(value)) ELSE score
\* `score -= count as f32 * value`
penalty(score, count, value) == RatSub(score, RatMul(Rat(count, 1), Hundredths(value)))

\* analyze::context::context_score
context_score(m) ==
    LET s1 == bonus(Zero, m.docs.has_agents_md /\ m.docs.agents_has_section_header, 35)
        s2 == bonus(s1, m.docs.has_context_index, 20)
        s3 == bonus(s2, m.docs.has_architecture_doc, 15)
        s4 == bonus(s3, m.docs.readme_links_architecture, 10)
        s5 == bonus(s4, IF IsSome(m.docs.docs_age_days)
                        THEN Unwrap(m.docs.docs_age_days) < 90 ELSE FALSE, 20)
    IN  clamp(s5, Zero, One)

\* analyze::tools::tools_score
tools_score(m) ==
    LET s1 == IF Len(m.tools.tool_names) > 12 THEN RatSub(One, Hundredths(10)) ELSE One
        s2 == penalty(s1, m.tools.risky_overlap_clusters, 5)
        s3 == penalty(s2, m.tools.unrestricted_destructive, 20)
        s4 == IF m.tools.has_ambiguous_duplicates THEN RatSub(s3, Hundredths(15)) ELSE s3
    IN  clamp(s4, Zero, One)

\* analyze::continuity::continuity_score
continuity_score(m) ==
    LET s1 == bonus(Zero, m.continuity.has_initializer_prompt /\ m.continuity.has_coding_prompt, 40)
        s2 == bonus(s1, m.continuity.has_progress_file, 25)
        s3 == bonus(s2, m.continuity.has_feature_state_file, 20)
        s4 == bonus(s3, m.continuity.has_progress_summary, 15)
    IN  clamp(s4, Zero, One)

\* analyze::verification::verification_score
verification_score(cfg) ==
    IF cfg = None THEN Zero
    ELSE IF Unwrap(cfg).verification = None THEN Zero
    ELSE LET v == Unwrap(Unwrap(cfg).verification)
             s1 == bonus(Zero, v.required # <<>>, 50)
             s2 == bonus(s1, v.pre_completion_required, 30)
             s3 == bonus(s2, v.loop_guard_enabled, 20)
         IN  clamp(s3, Zero, One)

\* analyze::quality::repository_quality_score
repository_quality_score(m) ==
    LET s1 == bonus(Zero, m.quality.has_ci_workflow, 40)
        s2 == bonus(s1, m.quality.has_tests, 30)
        s3 == bonus(s2, m.quality.has_lint_config, 30)
    IN  clamp(s3, Zero, One)

----------------------------------------------------------------------------
(* Finding generator and report assembly (src/analyze/mod.rs) *)

Finding(id, title, body, blocking, file) ==
    [id |-> id, title |-> title, body |-> body, blocking |-> blocking, file |-> file]

\* `if cond { findings.push(finding) }`
push_if(findings, cond, finding) == IF cond THEN Append(findings, finding) ELSE findings

\* config.and_then(|cfg| cfg.tools.as_ref()).and_then(|tools| tools.deprecated.as_ref())
deprecated_of(cfg) ==
    IF cfg = None THEN None
    ELSE IF Unwrap(cfg).tools = None THEN None
    ELSE Unwrap(Unwrap(cfg).tools).deprecated

\* the three findings of the deprecation lifecycle
lifecycle_findings(findings, cfg) ==
    IF deprecated_of(cfg) = None THEN findings
    ELSE LET d == Unwrap(deprecated_of(cfg))
             f1 == push_if(findings, d.observe # <<>>,
                     Finding("tools.observe", "Observed tools scheduled for deprecation",
                             <<"Observed tools are still allowed but tracked: {}.", d.observe>>,
                             FALSE, Some("harness.toml")))
             f2 == push_if(f1, d.deprecated # <<>>,
                     Finding("tools.deprecated", "Deprecated tools still enabled",
                             <<"Deprecated tools should be migrated off active workflows: {}.",
                               d.deprecated>>,
                             TRUE, Some("harness.toml")))
         IN  push_if(f2, d.disabled # <<>>,
                     Finding("tools.disabled", "Disabled tools are configured",
                             <<"Disabled tools are forbidden on apply and must not be used: {}.",
                               d.disabled>>,
                             TRUE, Some("harness.toml")))

verification_findings_both(findings, cfg, verification) ==
    LET f1 == push_if(findings, cfg # None /\ RatLe(verification, Hundredths(50)),
                Finding("verification.incomplete", "Verification policy incomplete",
                        <<"Verification requirements are incomplete or missing pre-completion checks.">>,
                        TRUE, Some("harness.toml")))
    IN  push_if(f1, cfg = None \/ verification = Zero,
                Finding("verification.missing_config", "Verification policy unavailable",
                        <<"Verification checks cannot be evaluated because harness.toml is missing.">>,
                        FALSE, Some("harness.toml")))

\* `if config.is_some() && verification < 0.5 { .. } else if config.is_none() { .. }`
verification_findings(findings, cfg, verification) ==
    IF cfg # None /\ RatLt(verification, Hundredths(50))
    THEN Append(findings,
                Finding("verification.incomplete", "Verification policy incomplete",
                        <<"Verification requirements are incomplete or missing pre-completion checks.">>,
                        TRUE, Some("harness.toml")))
    ELSE IF cfg = None
    THEN Append(findings,
                Finding("verification.missing_config", "Verification policy unavailable",
                        <<"Verification checks cannot be evaluated because harness.toml is missing.">>,
                        FALSE, Some("harness.toml")))
    ELSE findings

destructive_finding_any_tool(findings, m) ==
    push_if(findings, m.tools.unrestricted_destructive >= 0,
            Finding("tools.destructive_exposed", "Potentially destructive tools exposed",
                    <<"Detected unrestricted destructive commands in tool inventory.">>,
                    TRUE, Some("harness.toml")))

\* `if model.tools.unrestricted_destructive > 0 { .. }`
destructive_finding(findings, m) ==
    push_if(findings, m.tools.unrestricted_destructive > 0,
            Finding("tools.destructive_exposed", "Potentially destructive tools exposed",
                    <<"Detected unrestricted destructive commands in tool inventory.">>,
                    TRUE, Some("harness.toml")))

\* the findings of analyze, in the order they are pushed
analyze_findings(m, cfg, verification) ==
    LET f1 == push_if(<<>>, ~m.docs.has_agents_md,
                Finding("context.missing_agents", "Missing AGENTS.md",
                        <<"Repository is missing AGENTS.md; agent legibility is reduced.">>,
                        FALSE, Some("AGENTS.md")))
        f2 == push_if(f1, ~m.docs.has_context_index,
                Finding("context.missing_index", "Missing docs context index",
                        <<"docs/context/INDEX.md is missing, reducing navigability for agents.">>,
                        FALSE, Some("docs/context/INDEX.md")))
        f3 == destructive_finding(f2, m)
        f4 == lifecycle_findings(f3, cfg)
    IN  verification_findings(f4, cfg, verification)

\* the ids of the candidate recommendations, as bytes
RecContextIndex ==
    <<114, 101, 99, 46, 99, 111, 110, 116, 101, 120, 116, 46, 105, 110, 100, 101, 120>>
RecVerificationGate ==
    <<114, 101, 99, 46, 118, 101, 114, 105, 102, 105, 99, 97, 116, 105, 111, 110, 46,
      103, 97, 116, 101>>
RecToolsPrune ==
    <<114, 101, 99, 46, 116, 111, 111, 108, 115, 46, 112, 114, 117, 110, 101>>
RecRepoScale ==
    <<114, 101, 99, 46, 114, 101, 112, 111, 46, 115, 99, 97, 108, 101>>

\* the fixed candidate list of analyze and the candidate of small repositories
analyze_recommendations(m) ==
    LET fixed ==
          <<Recommendation_new(RecContextIndex, "Add Context Index",
                "Create docs/context/INDEX.md and link it from AGENTS.md.",
                "High", "S", "Safe", Hundredths(92)),
            Recommendation_new(RecVerificationGate, "Enable Verification Gate",
                "Set pre_completion_required and provide required verification commands.",
                "High", "S", "Medium", Hundredths(88)),
            Recommendation_new(RecToolsPrune, "Prune Redundant Tools",
                "Reduce overlap in grep/find-style tool clusters and remove risky commands.",
                "Medium", "M", "Medium", Hundredths(84))>>
    IN  IF m.file_count < 20
        THEN Append(fixed,
               Recommendation_new(RecRepoScale, "Document Repository Scale",
                 "Add lightweight architecture notes to support agent understanding in small repos.",
                 "Low", "Xs", "Safe", Hundredths(60)))
        ELSE fixed

\* analyze::analyze
analyze(m, cfg) ==
    LET context == context_score(m)
        tools == tools_score(m)
        continuity == continuity_score(m)
        verification == verification_score(cfg)
        repository_quality == repository_quality_score(m)
        w == IF cfg = None THEN default_weights ELSE config_weights(Unwrap(cfg))
        category_scores ==
            finalize(ScoreCard_new(context, tools, continuity, verification, repository_quality), w)
    IN  [overall_score |-> category_scores.overall,
         category_scores |-> category_scores,
         findings |-> analyze_findings(m, cfg, verification),
         recommendations |-> sort_recommendations(analyze_recommendations(m))]

----------------------------------------------------------------------------
(* Inputs of analyze and of finalize *)

MaxListedTools == 2

ToolNames == <<"find", "grep", "apply_patch", "sed">>
\* a Vec of n tool names
Listed(n) == [i \in 1..n |-> <<ToolNames[((i - 1) % Len(ToolNames)) + 1]>>]

DocsInputs ==
    { [has_agents_md |-> TRUE, agents_has_section_header |-> TRUE, has_context_index |-> TRUE,
       has_architecture_doc |-> TRUE, readme_links_architecture |-> TRUE, docs_age_days |-> Some(1)],
      [has_agents_md |-> FALSE, agents_has_section_header |-> FALSE, has_context_index |-> FALSE,
       has_architecture_doc |-> FALSE, readme_links_architecture |-> FALSE, docs_age_days |-> None],
      [has_agents_md |-> TRUE, agents_has_section_header |-> FALSE, has_context_index |-> FALSE,
       has_architecture_doc |-> TRUE, readme_links_architecture |-> FALSE, docs_age_days |-> Some(90)],
      [has_agents_md |-> FALSE, agents_has_section_header |-> FALSE, has_context_index |-> TRUE,
       has_architecture_doc |-> FALSE, readme_links_architecture |-> TRUE, docs_age_days |-> Some(89)] }

ToolSignalsInputs ==
    {[tool_names |-> [i \in 1..u[1] |-> "tool"], risky_overlap_clusters |-> u[2],
      unrestricted_destructive |-> u[3], has_ambiguous_duplicates |-> u[4]] :
        u \in {<<0, 0, 0, FALSE>>, <<12, 0, 0, FALSE>>, <<13, 0, 0, FALSE>>, <<0, 3, 0, TRUE>>,
               <<0, 0, 1, FALSE>>, <<13, 3, 5, TRUE>>}}

ContinuityQualityInputs ==
    { <<[has_initializer_prompt |-> FALSE, has_coding_prompt |-> FALSE, has_progress_file |-> FALSE,
         has_feature_state_file |-> FALSE, has_progress_summary |-> FALSE],
        [has_ci_workflow |-> FALSE, has_tests |-> FALSE, has_lint_config |-> FALSE], 100>>,
      <<[has_initializer_prompt |-> TRUE, has_coding_prompt |-> TRUE, has_progress_file |-> TRUE,
         has_feature_state_file |-> TRUE, has_progress_summary |-> TRUE],
        [has_ci_workflow |-> TRUE, has_tests |-> TRUE, has_lint_config |-> TRUE], 20>>,
      <<[has_initializer_prompt |-> TRUE, has_coding_prompt |-> FALSE, has_progress_file |-> TRUE,
         has_feature_state_file |-> FALSE, has_progress_summary |-> TRUE],
        [has_ci_workflow |-> FALSE, has_tests |-> TRUE, has_lint_config |-> FALSE], 19>> }

ModelInputs ==
    {[file_count |-> cq[3], docs |-> d, tools |-> t, continuity |-> cq[1], quality |-> cq[2]] :
        d \in DocsInputs, t \in ToolSignalsInputs, cq \in ContinuityQualityInputs}

VerificationInputs ==
    {None} \cup
    {Some([required |-> u[1], pre_completion_required |-> u[2], loop_guard_enabled |-> u[3]]) :
        u \in {<< <<>>, FALSE, FALSE>>, << <<>>, TRUE, TRUE>>, << <<>>, TRUE, FALSE>>,
               << <<"cargo", SP, "test">>, FALSE, FALSE>>, << <<"cargo", SP, "test">>, TRUE, TRUE>>}}

WeightMap(keys, value) == [k \in keys |-> value]
MetricsInputs ==
    { None,
      Some([weights |-> None]),
      Some([weights |-> Some(WeightMap({"context", "tools", "continuity", "verification",
                                        "repository_quality"}, Hundredths(20)))]),
      Some([weights |-> Some(WeightMap({"context", "tools"}, One))]),
      Some([weights |-> Some(WeightMap({"tools"}, RatNeg(One)))]) }

DeprecatedInputs ==
    {[observe |-> Listed(n[1]), deprecated |-> SubSeq(Listed(2 * MaxListedTools), MaxListedTools + 1,
                                                       MaxListedTools + n[2]),
      disabled |-> IF n[3] THEN <<ApplyPatch>> ELSE <<>>] :
        n \in (0..MaxListedTools) \X (0..MaxListedTools) \X BOOLEAN}

AnalyzeToolsInputs ==
    {None, Some([baseline |-> None, deprecated |-> None, aliases |-> None])}
    \cup {Some([baseline |-> None, deprecated |-> Some(d), aliases |-> None]) : d \in DeprecatedInputs}

LoadedInputs ==
    {None}
    \cup {Some([tools |-> None, verification |-> v, metrics |-> w]) :
            v \in VerificationInputs, w \in MetricsInputs}
    \cup {Some([tools |-> t, verification |-> None, metrics |-> None]) : t \in AnalyzeToolsInputs}

ScoreInputs == {RatNeg(Hundredths(20)), Zero, Hundredths(50), One, Hundredths(150)}
CardInputs ==
    {[ScoreCard_new(u[1], u[2], u[3], u[4], u[5]) EXCEPT !.overall = Hundredths(120)] :
        u \in ScoreInputs \X ScoreInputs \X ScoreInputs \X ScoreInputs \X ScoreInputs}
WeightInputs ==
    { default_weights,
      <<Hundredths(20), Hundredths(20), Hundredths(20), Hundredths(20), Hundredths(20)>>,
      <<One, One, Hundredths(20), Hundredths(15), Hundredths(10)>> }

----------------------------------------------------------------------------
(* expand_aliases, one iteration of `for _ in 0..8` at a time.  The locals *)
(* are current and seen; iterations counts the iterations that ran to the  *)
(* end of the loop body, heads lists the head tokens that were replaced.   *)

\* the locals before the loop
expand_start(command) ==
    [current |-> command, seen |-> {}, iterations |-> 0, heads |-> <<>>, returned |-> FALSE]

expand_iteration_without_seen(e, aliases) ==
    LET parts == split_whitespace(e.current) IN
    IF parts = <<>> THEN [e EXCEPT !.returned = TRUE]
    ELSE LET head == Head(parts)
             tail == join(Tail(parts), <<SP>>)
         IN  IF head \notin DOMAIN aliases
             THEN [e EXCEPT !.returned = TRUE]
             ELSE [e EXCEPT !.current = IF tail = <<>>
                                        THEN normalize(aliases[head])
                                        ELSE normalize(aliases[head] \o <<SP>> \o tail),
                            !.iterations = @ + 1,
                            !.heads = Append(@, head)]

\* the loop body: return current, or replace the head and go on
expand_iteration(e, aliases) ==
    LET parts == split_whitespace(e.current) IN
    IF parts = <<>> THEN [e EXCEPT !.returned = TRUE]
    ELSE LET head == Head(parts)
             tail == join(Tail(parts), <<SP>>)
         IN  IF head \in e.seen
             THEN [e EXCEPT !.returned = TRUE]
             ELSE IF head \notin DOMAIN aliases
             THEN [e EXCEPT !.seen = @ \cup {head}, !.returned = TRUE]
             ELSE [e EXCEPT !.current = IF tail = <<>>
                                        THEN normalize(aliases[head])
                                        ELSE normalize(aliases[head] \o <<SP>> \o tail),
                            !.seen = @ \cup {head},
                            !.iterations = @ + 1,
                            !.heads = Append(@, head)]

----------------------------------------------------------------------------
(* Inputs of the stepwise expansion: the alias maps of the matcher, and a   *)
(* chain of aliases longer than the loop runs                               *)

ChainTokens == <<"a1", "a2", "a3", "a4", "a5", "a6", "a7", "a8", "a9", "a10">>
ChainAliases ==
    [k \in {<<ChainTokens[i]>> : i \in 1..(Len(ChainTokens) - 1)} |->
        <<ChainTokens[(CHOOSE i \in 1..(Len(ChainTokens) - 1) : k = <<ChainTokens[i]>>) + 1]>>]
\* a chain that ends in a cycle: a1 -> a2 -> a3 -> a2
LassoAliases ==
    (<<"a1">> :> <<"a2", SP, "-rf">>) @@ (<<"a2">> :> <<"a3">>) @@ (<<"a3">> :> <<TAB, "a2", SP>>)

ExpandAliasInputs == AliasInputs \cup {ChainAliases, LassoAliases}
\* policies whose rule is the end of an alias chain
ChainPolicyInputs ==
    [forbidden : {<< <<ChainTokens[Len(ChainTokens)]>> >>, << <<"rm", SP, "-rf">> >>},
     aliases : ExpandAliasInputs]
ExpandCommandInputs ==
    CommandInputs \cup {<<"a1">>, <<"a1", SP, "rm">>, <<"a2">>, <<SP, "a3", TAB, "a1">>}

----------------------------------------------------------------------------
(* The apply sequence (src/generator/writer.rs).  The repository is the    *)
(* state of the three files a plan can touch; AGENTS.md is absent, present *)
(* without the link to the context index, or present with it.              *)

IndexPath == "docs/context/INDEX.md"
AgentsPath == "AGENTS.md"
ArchitecturePath == "ARCHITECTURE.md"
\* .harness/rollback/<timestamp>.json
ManifestPath == ".harness/rollback/manifest.json"

PlannedChange(path, action, content) == [path |-> path, action |-> action, content |-> content]

\* Result
Okay(value) == [kind |-> "Ok", value |-> value]
Err(error) == [kind |-> "Err", error |-> error]

\* maybe_add_context_index_change
maybe_add_context_index_change(files, changes) ==
    IF files[IndexPath] = "absent"
    THEN Append(changes, PlannedChange(IndexPath, "create", "present"))
    ELSE changes

maybe_add_agents_reference_change_unchecked(files, changes) ==
    IF files[AgentsPath] # "absent"
    THEN Append(changes, PlannedChange(AgentsPath, "modify", "with_link"))
    ELSE Append(changes, PlannedChange(AgentsPath, "create", "with_link"))

\* maybe_add_agents_reference_change: the contents the function writes, the
\* appended link line as well as the generated file, contain
\* "docs/context/INDEX.md", the text looked for in an existing file
maybe_add_agents_reference_change(files, changes) ==
    IF files[AgentsPath] # "absent"
    THEN IF files[AgentsPath] = "without_link"
         THEN Append(changes, PlannedChange(AgentsPath, "modify", "with_link"))
         ELSE changes
    ELSE Append(changes, PlannedChange(AgentsPath, "create", "with_link"))

\* maybe_add_architecture_doc_change
maybe_add_architecture_doc_change(files, changes) ==
    IF files[ArchitecturePath] = "absent"
    THEN Append(changes, PlannedChange(ArchitecturePath, "create", "present"))
    ELSE changes

RECURSIVE build_changes_from(_, _, _, _)
\* the loop of build_changes over the recommendation ids
build_changes_from(files, ids, seen, changes) ==
    IF ids = <<>> THEN changes
    ELSE LET id == Head(ids) IN
         IF id \in seen THEN build_changes_from(files, Tail(ids), seen, changes)
         ELSE build_changes_from(files, Tail(ids), seen \cup {id},
                IF id = RecContextIndex
                THEN maybe_add_agents_reference_change(files,
                         maybe_add_context_index_change(files, changes))
                ELSE IF id = RecRepoScale
                THEN maybe_add_architecture_doc_change(files, changes)
                ELSE changes)

\* build_changes
build_changes(files, ids) == build_changes_from(files, ids, {}, <<>>)

\* check_clean_tree
check_clean_tree(tree, cfg) ==
    LET guard == validate_with_config(<<GitStatus>>, 0, cfg) IN
    IF guard # Ok THEN Err(guard)
    ELSE IF tree = "not_git" THEN Err([kind |-> "NotGitRepo"])
    ELSE IF tree = "clean" THEN Okay(<<>>)
    ELSE Err([kind |-> "ConfigParse",
              message |-> "working tree is dirty; use --allow-dirty to override"])

\* the RepoModel that scan::discover finds for --plan-all
PlanModel(file_count, files) ==
    [file_count |-> file_count,
     docs |-> [has_agents_md |-> files[AgentsPath] # "absent",
               agents_has_section_header |-> files[AgentsPath] # "absent",
               has_context_index |-> files[IndexPath] # "absent",
               has_architecture_doc |-> files[ArchitecturePath] # "absent",
               readme_links_architecture |-> FALSE, docs_age_days |-> Some(1)],
     tools |-> [tool_names |-> <<>>, risky_overlap_clusters |-> 0,
                unrestricted_destructive |-> 0, has_ambiguous_duplicates |-> FALSE],
     continuity |-> [has_initializer_prompt |-> FALSE, has_coding_prompt |-> FALSE,
                     has_progress_file |-> FALSE, has_feature_state_file |-> FALSE,
                     has_progress_summary |-> FALSE],
     quality |-> [has_ci_workflow |-> FALSE, has_tests |-> FALSE, has_lint_config |-> FALSE]]

RECURSIVE safe_ids(_)
\* the ids of the recommendations whose risk is Safe
safe_ids(recs) ==
    IF recs = <<>> THEN <<>>
    ELSE IF Head(recs).risk = "Safe" THEN <<Head(recs).id>> \o safe_ids(Tail(recs))
    ELSE safe_ids(Tail(recs))

\* resolve_plan: the safe recommendations of a fresh analysis, or the plan file
resolve_plan(command, world, cfg) ==
    IF command.plan_all
    THEN Okay(safe_ids(analyze(PlanModel(world.file_count, world.files), cfg).recommendations))
    ELSE world.plan_file

confirm_apply_always(answer) == TRUE

\* confirm_apply: the answer, trimmed and in lower case, is "y" or "yes"
confirm_apply(answer) == answer \in {"y", "yes"}

preview_stops_never(command) == FALSE

\* `if matches!(cmd.apply_mode, ApplyMode::Preview)`
preview_stops(command) == command.apply_mode = "Preview"

\* fs::write of one file: the file has the content afterwards
write_file(files, path, content) == [files EXCEPT ![path] = content]

----------------------------------------------------------------------------
(* Inputs of the apply sequence *)

UnknownId == <<114, 101, 99, 46, 120>>
\* --plan-all with a small or a large repository, or the outcome of reading
\* the plan file
NoPlanFile == Err([kind |-> "NoPlanFile"])
PlanInputs ==
    {[file_count |-> n, plan_file |-> NoPlanFile] : n \in {19, 100}}
    \cup {[file_count |-> 100, plan_file |-> r] :
            r \in {Err([kind |-> "PathNotFound"]), Okay(<<>>), Okay(<<UnknownId>>),
                   Okay(<<RecRepoScale, RecContextIndex, RecRepoScale>>)}}

ApplyConfigInputs ==
    { Err([kind |-> "ConfigParse"]),
      Okay(None),
      Okay(Some([tools |-> Some([baseline |-> Some([forbidden |-> << <<"git", SP, "status">> >>]),
                                 deprecated |-> None, aliases |-> None]),
                 verification |-> None, metrics |-> None])),
      Okay(Some([tools |-> Some([baseline |-> None,
                                 deprecated |-> Some([observe |-> <<>>, deprecated |-> <<>>,
                                                      disabled |-> <<ApplyPatch>>]),
                                 aliases |-> None]),
                 verification |-> None, metrics |-> None])) }

FilesInputs ==
    {(IndexPath :> u[1]) @@ (AgentsPath :> u[2]) @@ (ArchitecturePath :> u[3])
        @@ (ManifestPath :> "absent") :
        u \in {<<"absent", "absent", "absent">>, <<"absent", "without_link", "present">>,
               <<"present", "with_link", "absent">>, <<"present", "with_link", "present">>}}

\* the number of the fs::write that fails (1 is the rollback manifest), 0: none
WriteFailureInputs == {0, 1, 3}

\* what the user types at the prompt, trimmed and in lower case
AnswerInputs == {"yes", "n"}

TreeInputs == {"clean", "dirty", "not_git"}

ApplyWorldInputs ==
    {[config |-> c, tree |-> t, file_count |-> p.file_count, plan_file |-> p.plan_file,
      files |-> f, answer |-> a, write_failure |-> w] :
        c \in ApplyConfigInputs, t \in TreeInputs, p \in PlanInputs, f \in FilesInputs,
        a \in AnswerInputs, w \in WriteFailureInputs}

----------------------------------------------------------------------------
(* Trace scan and optimize report (src/main.rs).  A line of a trace file   *)
(* is blank (nothing but whitespace), holds bytes that are not UTF-8, is   *)
(* not a JSON TraceRecord, or is a TraceRecord whose timestamp is either   *)
(* not RFC 3339 (None) or a time, counted in half days.                    *)

HalfDaysPerDay == 2

\* chrono::Duration::num_days: whole days, truncated towards zero
num_days(half_days) ==
    IF half_days >= 0 THEN half_days \div HalfDaysPerDay
    ELSE -((-half_days) \div HalfDaysPerDay)

\* TraceScanStats::default()
DefaultStats == [recent |-> 0, stale |-> 0, malformed |-> 0]

\* std::fs::read_to_string: an error when the bytes of the file are not UTF-8
read_to_string(file) ==
    IF \E i \in DOMAIN file : file[i].kind = "invalid_utf8"
    THEN Err([kind |-> "Io"])
    ELSE Okay(file)

\* `content.lines().map(str::trim).filter(|line| !line.is_empty())`
non_empty_lines(content) == SelectSeq(content, LAMBDA line : line.kind # "blank")

\* RecentTraceRecord of a complete record
RecentTraceRecord(record) ==
    [timestamp |-> Unwrap(record.timestamp), task_id |-> Unwrap(record.task_id),
     revision |-> Unwrap(record.revision), outcome |-> Unwrap(record.outcome),
     steps |-> record.steps, token_est |-> record.token_est]

\* the body of the loop of scan_traces over the lines of a file
scan_line(data, line, now, max_age) ==
    IF line.kind # "record" THEN [data EXCEPT !.stats.malformed = @ + 1]
    ELSE IF line.timestamp = None THEN [data EXCEPT !.stats.malformed = @ + 1]
    ELSE IF num_days(now - Unwrap(line.timestamp)) <= max_age
    THEN IF IsSome(line.task_id) /\ IsSome(line.revision) /\ IsSome(line.outcome)
         THEN [data EXCEPT !.stats.recent = @ + 1,
                           !.recent = Append(@, RecentTraceRecord(line))]
         ELSE [data EXCEPT !.stats.recent = @ + 1]
    ELSE [data EXCEPT !.stats.stale = @ + 1]

RECURSIVE scan_lines(_, _, _, _)
scan_lines(data, lines, now, max_age) ==
    IF lines = <<>> THEN data
    ELSE scan_lines(scan_line(data, Head(lines), now, max_age), Tail(lines), now, max_age)

\* scan_traces on a trace directory that holds one file
scan_traces(file, max_age_days, now) ==
    LET content == read_to_string(file) IN
    IF content.kind = "Err" THEN content
    ELSE Okay(scan_lines([stats |-> DefaultStats, recent |-> <<>>],
                         non_empty_lines(content.value), now, max_age_days))

RECURSIVE take(_, _)
\* Iterator::take
take(list, n) ==
    IF n = 0 \/ list = <<>> THEN <<>> ELSE <<Head(list)>> \o take(Tail(list), n - 1)

\* the status line of a delta
status_line(status) ==
    CASE status = Improvement -> <<"Status: improvement detected.">>
      [] status = Regression -> <<"Status: regression warning.">>
      [] status = Neutral -> <<"Status: stable; changes are below uplift thresholds.">>
      [] status = InsufficientData ->
            <<"Status: insufficient comparative data for optimize deltas.">>

below_min_recent_never(trace_scan, t) == FALSE

\* `if trace_scan.recent < thresholds.min_traces as usize`
below_min_recent(trace_scan, t) == trace_scan.recent < t.min_traces

\* render_optimize_report: the lines of the text; a line is its format string
\* (written without the backquotes around revisions and ids) followed by the
\* values formatted into it
render_optimize_report(rep, trace_scan, t, d) ==
    LET ordered == sort_recommendations(rep.recommendations)
        header ==
            << <<"# Harness Optimize Report">>,
               <<>>,
               <<"Overall score: {:.3}", rep.overall_score>>,
               <<"Trace directory: {}">>,
               <<"Trace records: recent={}, stale={}, malformed={}",
                 trace_scan.recent, trace_scan.stale, trace_scan.malformed>>,
               <<"Recent traces required for optimization: {}", t.min_traces>>,
               <<>> >>
        warning ==
            IF trace_scan.malformed > 0
            THEN << <<"Warning: ignored malformed trace records: {}", trace_scan.malformed>> >>
            ELSE <<>>
        gate ==
            << <<"Status: insufficient data for optimization recommendations.">>,
               <<"Need at least {} recent traces before computing optimize deltas.",
                 t.min_traces>>,
               <<>> >>
        revisions ==
            IF IsSome(d.baseline_revision) /\ IsSome(d.current_revision)
            THEN << <<"- revisions compared: baseline={}, current={}",
                      Unwrap(d.baseline_revision), Unwrap(d.current_revision)>> >>
            ELSE <<>>
        comparison ==
            << <<"## Optimization Delta">> >> \o revisions \o
            << <<"- task overlap: {:.2}", Fmt2(d.task_overlap)>>,
               <<"- completion delta: {:+.3}, token delta (rel): {:+.3}, step delta (rel): {:+.3}",
                 d.completion_delta, d.token_delta_rel, d.step_delta_rel>>,
               status_line(d.status) >> \o
            (IF IsSome(d.reason) THEN << <<"Reason: {}", Unwrap(d.reason)>> >> ELSE <<>>) \o
            << <<>> >>
        listing ==
            << <<"## Top Recommendations">> >> \o
            (IF ordered = <<>> THEN << <<"- No recommendations available.">> >>
             ELSE [i \in 1..Len(take(ordered, 10)) |->
                     <<"- {}: {} (impact: {:?}, effort: {:?}, risk: {:?}, confidence: {:.2})",
                       ordered[i].id, ordered[i].summary, ordered[i].impact, ordered[i].effort,
                       ordered[i].risk, Fmt2(ordered[i].confidence)>>]) \o
            << <<>> >>
    IN  IF below_min_recent(trace_scan, t) THEN header \o warning \o gate
        ELSE IF d.status = InsufficientData THEN header \o warning \o comparison
        ELSE header \o warning \o comparison \o listing

----------------------------------------------------------------------------
(* Inputs of the optimize command *)

MaxTraceLines == 3

\* the time of the scan, in half days
Now == 9

TraceRecordLine(ts, task, rev, outcome) ==
    [kind |-> "record", timestamp |-> ts, task_id |-> task, revision |-> rev,
     outcome |-> outcome, steps |-> Some(1), token_est |-> Some(1)]

\* ages with trace_staleness_days = 1: 0 and 3 half days are recent (0 and 1
\* whole days), 4 half days are stale, -2 half days lie in the future
TraceLineInputs ==
    { [kind |-> "blank"], [kind |-> "invalid_utf8"], [kind |-> "bad_json"],
      TraceRecordLine(None, Some("task-1"), Some("rev-a"), Some("success")),
      TraceRecordLine(Some(Now - 4), Some("task-1"), Some("rev-a"), Some("success")),
      TraceRecordLine(Some(Now - 3), Some("task-1"), Some("rev-a"), Some("failure")),
      TraceRecordLine(Some(Now), Some("task-1"), Some("rev-b"), Some("success")),
      TraceRecordLine(Some(Now + 2), Some("task-2"), Some("rev-b"), Some("success")),
      TraceRecordLine(Some(Now), None, Some("rev-b"), Some("success")),
      TraceRecordLine(Some(Now), Some("task-1"), None, None) }

OptimizeThresholdInputs ==
    {[DefaultThresholds EXCEPT !.min_traces = n, !.trace_staleness_days = 1,
                               !.task_overlap_threshold = Hundredths(o)] :
        n \in 0..2, o \in {0, 50}}

\* the repository that scan::discover finds
OptimizeModelInputs ==
    {PlanModel(n, f) : n \in {100}, f \in {u \in FilesInputs : u[AgentsPath] # "without_link"}}

----------------------------------------------------------------------------
(* Configuration loading (src/config.rs) and validation                    *)
(* (src/types/config.rs).  A TOML file is the map from the paths of its    *)
(* values (<<"project", "profile">>) to those values; tables always meet   *)
(* tables, so the recursive merge of two files overrides value by value.   *)

\* Option of the value at a path
Opt(table, path) == IF path \in DOMAIN table THEN Some(table[path]) ELSE None

\* whether the table has the sub-table at a prefix of one or two keys
HasTable(table, prefix) ==
    \E p \in DOMAIN table :
        /\ Len(p) > Len(prefix)
        /\ \A i \in DOMAIN prefix : p[i] = prefix[i]

\* merge_toml
merge_toml(base, overlay) == overlay @@ base

\* merge_file_if_exists
merge_file_if_exists(merged, file) ==
    IF file = None THEN merged ELSE merge_toml(merged, Unwrap(file))

\* `merged.try_into()`: serde builds the HarnessConfig; project.name is the
\* only value without a default
try_into(table) ==
    IF <<"project", "name">> \notin DOMAIN table
    THEN Err([kind |-> "ConfigParse", message |-> "missing field name"])
    ELSE Okay(
      [project |-> [name |-> table[<<"project", "name">>],
                    profile |-> get_or(table, <<"project", "profile">>, "general")],
       tools |->
          IF ~HasTable(table, <<"tools">>) THEN None
          ELSE Some(
            [baseline |->
                IF ~HasTable(table, <<"tools", "baseline">>) THEN None
                ELSE Some([read |-> get_or(table, <<"tools", "baseline", "read">>, <<>>),
                           write |-> get_or(table, <<"tools", "baseline", "write">>, <<>>),
                           forbidden |-> get_or(table, <<"tools", "baseline", "forbidden">>, <<>>)]),
             specialized |->
                IF ~HasTable(table, <<"tools", "specialized">>) THEN None
                ELSE Some([extra |-> get_or(table, <<"tools", "specialized", "extra">>, <<>>)]),
             deprecated |->
                IF ~HasTable(table, <<"tools", "deprecated">>) THEN None
                ELSE Some([observe |-> get_or(table, <<"tools", "deprecated", "observe">>, <<>>),
                           deprecated |-> get_or(table, <<"tools", "deprecated", "deprecated">>, <<>>),
                           disabled |-> get_or(table, <<"tools", "deprecated", "disabled">>, <<>>)]),
             aliases |-> None]),
       verification |->
          IF ~HasTable(table, <<"verification">>) THEN None
          ELSE Some([required |-> get_or(table, <<"verification", "required">>, <<>>),
                     pre_completion_required |->
                        get_or(table, <<"verification", "pre_completion_required">>, FALSE),
                     loop_guard_enabled |->
                        get_or(table, <<"verification", "loop_guard_enabled">>, FALSE)]),
       metrics |->
          IF ~HasTable(table, <<"metrics">>) THEN None
          ELSE Some(
            [weights |->
                IF ~HasTable(table, <<"metrics", "weights">>) THEN None
                ELSE Some([k \in {p[3] : p \in {q \in DOMAIN table :
                                      Len(q) = 3 /\ q[1] = "metrics" /\ q[2] = "weights"}}
                             |-> table[<<"metrics", "weights", k>>]]),
             max_risk_tolerance |-> Opt(table, <<"metrics", "max_risk_tolerance">>),
             max_penalty_per_bucket |-> Opt(table, <<"metrics", "max_penalty_per_bucket">>)]),
       optimization |->
          IF ~HasTable(table, <<"optimization">>) THEN None
          ELSE Some([min_traces |-> Opt(table, <<"optimization", "min_traces">>),
                     min_uplift_abs |-> Opt(table, <<"optimization", "min_uplift_abs">>),
                     min_uplift_rel |-> Opt(table, <<"optimization", "min_uplift_rel">>),
                     trace_staleness_days |-> Opt(table, <<"optimization", "trace_staleness_days">>),
                     task_overlap_threshold |->
                        Opt(table, <<"optimization", "task_overlap_threshold">>)])])

EmptyTable == [p \in {} |-> 0]

\* load_config_with_global: files.global, files.repo and files.local are the
\* three files, None when a file does not exist
load_config_with_global(files) ==
    IF files.repo = None THEN Okay(None)
    ELSE LET merged ==
                merge_file_if_exists(
                    merge_file_if_exists(
                        merge_file_if_exists(EmptyTable, files.global),
                        files.repo),
                    files.local)
             cfg == try_into(merged)
         IN  IF cfg.kind = "Err" THEN cfg ELSE Okay(Some(cfg.value))

\* `(0.0..=1.0).contains(x)`
in_unit_range(x) == RatLe(Zero, x) /\ RatLe(x, One)

ConfigParse(message) == Err([kind |-> "ConfigParse", message |-> message])

RECURSIVE lifecycle_from(_, _, _)
\* the loops of validate_tool_deprecation_lifecycle over the stages in order
\* and the tools of a stage; `seen` holds the tools of the stages before,
\* `stage_seen` the tools of this stage
lifecycle_from(stages, seen, stage_seen) ==
    IF stages = <<>> THEN Okay(<<>>)
    ELSE IF Head(stages) = <<>>
    THEN lifecycle_from(Tail(stages), seen \cup stage_seen, {})
    ELSE LET tool == Head(Head(stages)) IN
         IF tool = <<>> THEN ConfigParse("entries must be non-empty command names")
         ELSE IF tool \in stage_seen THEN ConfigParse("contains duplicate tool")
         ELSE IF tool \in seen THEN ConfigParse("tool cannot appear in both")
         ELSE lifecycle_from(<<Tail(Head(stages))>> \o Tail(stages), seen,
                             stage_seen \cup {tool})

\* validate_tool_deprecation_lifecycle
validate_tool_deprecation_lifecycle(deprecated) ==
    lifecycle_from(<<deprecated.observe, deprecated.deprecated, deprecated.disabled>>, {}, {})

AllowedWeightKeys == {"context", "tools", "continuity", "verification", "repository_quality"}

\* the sum of the five weights
weight_sum(w) == RatAdd(RatAdd(RatAdd(RatAdd(w[1], w[2]), w[3]), w[4]), w[5])

\* an Option<f32> that is Some and outside [0,1]
out_of_unit_range(o) == IsSome(o) /\ ~in_unit_range(Unwrap(o))

\* HarnessConfig::validate
HarnessConfig_validate(cfg) ==
    LET w == config_weights(cfg) IN
    IF cfg.project.profile \notin {"general", "agent"}
    THEN ConfigParse("unsupported project.profile")
    ELSE IF \E i \in DOMAIN w : ~in_unit_range(w[i])
    THEN ConfigParse("metrics.weights values must be between 0.0 and 1.0")
    ELSE IF RatLt(Rat(1, 1000), RatAbs(RatSub(weight_sum(w), One)))
    THEN ConfigParse("metrics.weights must sum to 1.0")
    ELSE IF /\ IsSome(cfg.metrics)
            /\ IsSome(Unwrap(cfg.metrics).weights)
            /\ DOMAIN Unwrap(Unwrap(cfg.metrics).weights) \ AllowedWeightKeys # {}
    THEN ConfigParse("metrics.weights contains unknown key(s)")
    ELSE IF IsSome(cfg.metrics) /\ out_of_unit_range(Unwrap(cfg.metrics).max_risk_tolerance)
    THEN ConfigParse("metrics.max_risk_tolerance must be between 0.0 and 1.0")
    ELSE IF IsSome(cfg.metrics) /\ out_of_unit_range(Unwrap(cfg.metrics).max_penalty_per_bucket)
    THEN ConfigParse("metrics.max_penalty_per_bucket must be between 0.0 and 1.0")
    ELSE IF /\ IsSome(cfg.verification)
            /\ Unwrap(cfg.verification).pre_completion_required
            /\ Unwrap(cfg.verification).required = <<>>
    THEN ConfigParse("verification.required cannot be empty when pre_completion_required = true")
    ELSE IF /\ IsSome(cfg.tools)
            /\ IsSome(Unwrap(cfg.tools).deprecated)
            /\ validate_tool_deprecation_lifecycle(Unwrap(Unwrap(cfg.tools).deprecated)).kind = "Err"
    THEN validate_tool_deprecation_lifecycle(Unwrap(Unwrap(cfg.tools).deprecated))
    ELSE IF cfg.optimization = None THEN Okay(<<>>)
    ELSE LET o == Unwrap(cfg.optimization) IN
         IF o.min_traces = Some(0)
         THEN ConfigParse("optimization.min_traces must be greater than 0")
         ELSE IF out_of_unit_range(o.min_uplift_abs)
         THEN ConfigParse("optimization.min_uplift_abs must be between 0.0 and 1.0")
         ELSE IF out_of_unit_range(o.min_uplift_rel)
         THEN ConfigParse("optimization.min_uplift_rel must be between 0.0 and 1.0")
         ELSE IF o.trace_staleness_days = Some(0)
         THEN ConfigParse("optimization.trace_staleness_days must be greater than 0")
         ELSE IF out_of_unit_range(o.task_overlap_threshold)
         THEN ConfigParse("optimization.task_overlap_threshold must be between 0.0 and 1.0")
         ELSE Okay(<<>>)

\* HarnessConfig::optimization_thresholds
optimization_thresholds(cfg) ==
    IF cfg.optimization = None THEN DefaultThresholds
    ELSE LET o == Unwrap(cfg.optimization)
             or(option, default) == IF IsSome(option) THEN Unwrap(option) ELSE default
         IN  [min_traces |-> or(o.min_traces, DefaultThresholds.min_traces),
              min_uplift_abs |-> or(o.min_uplift_abs, DefaultThresholds.min_uplift_abs),
              min_uplift_rel |-> or(o.min_uplift_rel, DefaultThresholds.min_uplift_rel),
              trace_staleness_days |->
                 or(o.trace_staleness_days, DefaultThresholds.trace_staleness_days),
              task_overlap_threshold |->
                 or(o.task_overlap_threshold, DefaultThresholds.task_overlap_threshold)]

----------------------------------------------------------------------------
(* Tool detection (src/scan/tools.rs), repository discovery                *)
(* (src/scan/mod.rs) and the analyze, lint and suggest commands            *)
(* (src/main.rs).  Tool names are strings; the names that occur are listed *)
(* in the order of str::cmp.                                               *)

\* default_tool_names
default_tool_names == <<"bash", "ls", "find", "cat", "rg", "git">>

\* collect_config_tools
collect_config_tools(cfg) ==
    IF cfg.tools = None THEN <<>>
    ELSE LET tools == Unwrap(cfg.tools) IN
         (IF tools.baseline = None THEN <<>>
          ELSE Unwrap(tools.baseline).read \o Unwrap(tools.baseline).write)
         \o (IF tools.specialized = None THEN <<>> ELSE Unwrap(tools.specialized).extra)

\* `tool.trim().to_lowercase()` on the names that occur
trim_to_lowercase(tool) ==
    CASE tool = " " -> ""
      [] tool = "RG" -> "rg"
      [] tool = " rm" -> "rm"
      [] OTHER -> tool

\* the names that occur after normalisation, in the order of str::cmp
SortedToolNames ==
    <<"ack", "ag", "bash", "cat", "fd", "find", "git", "grep", "ls", "rg", "rm", "sudo">>

\* the position of a name in the order of str::cmp
tool_rank(tool) == CHOOSE i \in DOMAIN SortedToolNames : SortedToolNames[i] = tool

RECURSIVE insert_tool(_, _)
insert_tool(sorted, tool) ==
    IF sorted = <<>> THEN <<tool>>
    ELSE IF tool_rank(tool) < tool_rank(Head(sorted)) THEN <<tool>> \o sorted
    ELSE <<Head(sorted)>> \o insert_tool(Tail(sorted), tool)

RECURSIVE sort_tools(_, _)
\* `tools.sort()`
sort_tools(sorted, rest) ==
    IF rest = <<>> THEN sorted
    ELSE sort_tools(insert_tool(sorted, Head(rest)), Tail(rest))

\* normalize_tool_list
normalize_tool_list(tools) ==
    LET retained == SelectSeq(tools, LAMBDA tool : trim_to_lowercase(tool) # "")
    IN  sort_tools(<<>>, [i \in DOMAIN retained |-> trim_to_lowercase(retained[i])])

\* has_duplicates
has_duplicates(tools) == \E i, j \in DOMAIN tools : i # j /\ tools[i] = tools[j]

\* `tools.contains(..)`
contains(tools, tool) == \E i \in DOMAIN tools : tools[i] = tool

\* count_overlap_clusters
count_overlap_clusters(tools) ==
    (IF Cardinality({t \in {"grep", "rg", "ag", "ack"} : contains(tools, t)}) > 1 THEN 1 ELSE 0)
    + (IF Cardinality({t \in {"find", "fd"} : contains(tools, t)}) > 1 THEN 1 ELSE 0)

\* count_unrestricted_destructive
count_unrestricted_destructive(tools) ==
    Len(SelectSeq(tools, LAMBDA t : t \in {"sudo", "mkfs", "fdisk", "rm", "shutdown"}))

\* detect_tools
detect_tools(cfg) ==
    LET collected == IF cfg # None THEN collect_config_tools(Unwrap(cfg)) ELSE default_tool_names
        tool_names == normalize_tool_list(IF collected = <<>> THEN default_tool_names
                                          ELSE collected)
    IN  [tool_names |-> tool_names,
         risky_overlap_clusters |-> count_overlap_clusters(tool_names),
         unrestricted_destructive |-> count_unrestricted_destructive(tool_names),
         has_ambiguous_duplicates |-> has_duplicates(tool_names)]

\* scan::discover: the documents, continuity files and quality files are what
\* the repository holds, the tool signals come from the configuration
discover(repo, cfg) ==
    [file_count |-> repo.file_count,
     docs |-> repo.docs,
     tools |-> detect_tools(cfg),
     continuity |-> repo.continuity,
     quality |-> repo.quality]

\* exit_code
SUCCESS == 0
WARNINGS == 1
BLOCKING == 2
RUNTIME_FAILURE == 3

\* the checks at the head of every command
path_checks(repo) ==
    IF repo.path = "missing" THEN Err([kind |-> "PathNotFound"])
    ELSE IF repo.path = "no_git" THEN Err([kind |-> "NotGitRepo"])
    ELSE Okay(<<>>)

analyze_exit_warnings_first(findings, cfg) ==
    IF cfg = None \/ findings # <<>> THEN WARNINGS
    ELSE IF \E i \in DOMAIN findings : findings[i].blocking THEN BLOCKING
    ELSE SUCCESS

\* the exit code of analyze
analyze_exit(findings, cfg) ==
    LET has_blocking == \E i \in DOMAIN findings : findings[i].blocking
        has_warnings == findings # <<>>
        missing_config == cfg = None
    IN  IF has_blocking THEN BLOCKING
        ELSE IF missing_config \/ has_warnings THEN WARNINGS
        ELSE SUCCESS

\* the Analyze branch of run: the result, and what was printed
run_analyze(command, repo, files) ==
    LET checked == path_checks(repo)
        cfg == load_config_with_global(files)
    IN  IF checked.kind = "Err" THEN [result |-> checked, loaded |-> None, printed |-> None]
        ELSE IF cfg.kind = "Err" THEN [result |-> cfg, loaded |-> None, printed |-> None]
        ELSE LET loaded_config == cfg.value
                 harness_report == analyze(discover(repo, loaded_config), loaded_config)
                 shown ==
                    IF command.min_impact = "Safe"
                    THEN [harness_report EXCEPT
                            !.recommendations = SelectSeq(@, LAMBDA r : r.risk = "Safe")]
                    ELSE harness_report
             IN  [result |-> Okay(analyze_exit(harness_report.findings, loaded_config)),
                  loaded |-> loaded_config,
                  printed |-> Some(shown)]

\* the Lint branch of run
run_lint(command, repo, files) ==
    LET checked == path_checks(repo)
        cfg == load_config_with_global(files)
    IN  IF checked.kind = "Err" THEN [result |-> checked, loaded |-> None, printed |-> None]
        ELSE IF cfg.kind = "Err" THEN [result |-> cfg, loaded |-> None, printed |-> None]
        ELSE LET loaded_config == cfg.value
                 findings == analyze(discover(repo, loaded_config), loaded_config).findings
             IN  [result |-> Okay(IF findings = <<>> THEN SUCCESS
                                  ELSE IF \E i \in DOMAIN findings : findings[i].blocking
                                       THEN BLOCKING
                                       ELSE WARNINGS),
                  loaded |-> loaded_config,
                  printed |-> Some([findings |-> findings])]

\* the Suggest branch of run, without --export-diff
run_suggest(command, repo, files) ==
    LET checked == path_checks(repo)
        cfg == load_config_with_global(files)
    IN  IF checked.kind = "Err" THEN [result |-> checked, loaded |-> None, printed |-> None]
        ELSE IF cfg.kind = "Err" THEN [result |-> cfg, loaded |-> None, printed |-> None]
        ELSE LET loaded_config == cfg.value
                 harness_report == analyze(discover(repo, loaded_config), loaded_config)
             IN  [result |-> Okay(SUCCESS),
                  loaded |-> loaded_config,
                  printed |-> Some([recommendations |-> harness_report.recommendations])]

\* main: the exit code of the process
process_exit(result) == IF result.kind = "Ok" THEN result.value ELSE RUNTIME_FAILURE

----------------------------------------------------------------------------
(* The components as state machines: the inputs of a call are chosen       *)
(* initially or by the steps that build them, one action performs the call *)
(* and stores its result.                                                  *)

PolicyIdle == policy = DefaultPolicy /\ cmd = <<>> /\ verdict = None /\ expansion = <<>>
ValidateIdle == config = None /\ commands = <<>> /\ planned_edits = 0 /\ validation = None
DeltaIdle == profile = "none" /\ traces = <<>> /\ thresholds = None /\ delta = None
SortIdle == candidates = <<>> /\ recommendations = <<>> /\ ranked = FALSE
AnalyzeIdle == model = <<>> /\ loaded = None /\ report = None
CardIdle == raw_card = <<>> /\ weights = <<>> /\ card = None
ApplyIdle ==
    /\ apply_cmd = <<>>
    /\ apply_world = <<>>
    /\ apply_pc = "idle"
    /\ apply_loaded = None
    /\ apply_plan = <<>>
    /\ apply_changes = <<>>
    /\ apply_result = None
    /\ apply_steps = <<>>
ScanIdle == trace_lines = <<>> /\ scan = None /\ rendered = None
CommandIdle == cli_args = <<>> /\ worktree = <<>> /\ config_files = <<>> /\ cli_outcome = None

\* one call of is_forbidden_with_policy(cmd, policy)
IsForbidden ==
    /\ verdict = None
    /\ verdict' = Some(is_forbidden_with_policy(cmd, policy))
    /\ UNCHANGED <<policy, cmd, expansion>>
    /\ UNCHANGED <<validateVars, deltaVars, sortVars, analyzeVars, cardVars, applyVars, scanVars>>
    /\ UNCHANGED commandVars

\* one call of validate_with_config(commands, planned_edits, config)
Validate ==
    /\ validation = None
    /\ validation' = Some(validate_with_config(commands, planned_edits, config))
    /\ UNCHANGED <<config, commands, planned_edits>>
    /\ UNCHANGED <<policyVars, expansion, deltaVars, sortVars, analyzeVars, cardVars,
                   applyVars, scanVars>>
    /\ UNCHANGED commandVars

\* scan_traces hands one more complete recent record to the aggregation
ScanTrace ==
    /\ Len(traces) < TraceBound(profile)
    /\ \E record \in TraceInputs(profile) : traces' = Append(traces, record)
    /\ thresholds' = None
    /\ delta' = None
    /\ UNCHANGED profile
    /\ UNCHANGED <<policyVars, expansion, validateVars, sortVars, analyzeVars, cardVars,
                   applyVars, scanVars>>
    /\ UNCHANGED commandVars

\* one call of compute_optimize_delta(traces, thresholds)
Optimize ==
    /\ delta = None
    /\ \E t \in ThresholdInputs(profile) :
          /\ thresholds' = Some(t)
          /\ delta' = Some(compute_optimize_delta(traces, t))
    /\ UNCHANGED <<profile, traces>>
    /\ UNCHANGED <<policyVars, expansion, validateVars, sortVars, analyzeVars, cardVars,
                   applyVars, scanVars>>
    /\ UNCHANGED commandVars

Init ==
    /\ policy \in PolicyInputs
    /\ cmd \in CommandInputs
    /\ verdict = None
    /\ expansion = <<>>
    /\ ValidateIdle
    /\ DeltaIdle
    /\ SortIdle
    /\ AnalyzeIdle
    /\ CardIdle
    /\ ApplyIdle
    /\ ScanIdle
    /\ CommandIdle

Next == IsForbidden

Spec == Init /\ [][Next]_vars

InitValidate ==
    /\ config \in ConfigInputs
    /\ commands \in Strings(ValidateCommandInputs, MaxCommands)
    /\ planned_edits \in EditInputs
    /\ validation = None
    /\ PolicyIdle
    /\ DeltaIdle
    /\ SortIdle
    /\ AnalyzeIdle
    /\ CardIdle
    /\ ApplyIdle
    /\ ScanIdle
    /\ CommandIdle

NextValidate == Validate

SpecValidate == InitValidate /\ [][NextValidate]_vars

InitDelta(pr) ==
    /\ profile = pr
    /\ traces = <<>>
    /\ thresholds = None
    /\ delta = None
    /\ PolicyIdle
    /\ ValidateIdle
    /\ SortIdle
    /\ AnalyzeIdle
    /\ CardIdle
    /\ ApplyIdle
    /\ ScanIdle
    /\ CommandIdle

NextDelta == ScanTrace \/ Optimize

SpecRecency == InitDelta("recency") /\ [][NextDelta]_vars
SpecGates == InitDelta("gates") /\ [][NextDelta]_vars
SpecSignals == InitDelta("signals") /\ [][NextDelta]_vars
SpecAverages == InitDelta("averages") /\ [][NextDelta]_vars

\* analyze and the renderers push one more candidate recommendation
PushRecommendation ==
    /\ ~ranked
    /\ Len(candidates) < MaxRecommendations
    /\ \E r \in RecommendationInputs :
          /\ candidates' = Append(candidates, r)
          /\ recommendations' = Append(recommendations, r)
    /\ UNCHANGED ranked
    /\ UNCHANGED <<policyVars, expansion, validateVars, deltaVars, analyzeVars, cardVars,
                   applyVars, scanVars>>
    /\ UNCHANGED commandVars

\* one call of report.sort_recommendations()
SortRecommendations ==
    /\ ~ranked
    /\ recommendations' = sort_recommendations(recommendations)
    /\ ranked' = TRUE
    /\ UNCHANGED candidates
    /\ UNCHANGED <<policyVars, expansion, validateVars, deltaVars, analyzeVars, cardVars,
                   applyVars, scanVars>>
    /\ UNCHANGED commandVars

InitSort ==
    /\ SortIdle
    /\ PolicyIdle
    /\ ValidateIdle
    /\ DeltaIdle
    /\ AnalyzeIdle
    /\ CardIdle
    /\ ApplyIdle
    /\ ScanIdle
    /\ CommandIdle

NextSort == PushRecommendation \/ SortRecommendations

SpecSort == InitSort /\ [][NextSort]_vars


\* one call of analyze(model, loaded)
Analyze ==
    /\ model # <<>>
    /\ report = None
    /\ report' = Some(analyze(model, loaded))
    /\ UNCHANGED <<model, loaded>>
    /\ UNCHANGED <<policyVars, expansion, validateVars, deltaVars, sortVars, cardVars,
                   applyVars, scanVars>>
    /\ UNCHANGED commandVars

\* one call of raw_card.finalize(weights)
Finalize ==
    /\ raw_card # <<>>
    /\ card = None
    /\ card' = Some(finalize(raw_card, weights))
    /\ UNCHANGED <<raw_card, weights>>
    /\ UNCHANGED <<policyVars, expansion, validateVars, deltaVars, sortVars, analyzeVars,
                   applyVars, scanVars>>
    /\ UNCHANGED commandVars

InitAnalyze ==
    /\ \/ /\ model \in ModelInputs
          /\ loaded \in LoadedInputs
          /\ report = None
          /\ CardIdle
       \/ /\ raw_card \in CardInputs
          /\ weights \in WeightInputs
          /\ card = None
          /\ AnalyzeIdle
    /\ PolicyIdle
    /\ ValidateIdle
    /\ DeltaIdle
    /\ SortIdle
    /\ ApplyIdle
    /\ ScanIdle
    /\ CommandIdle

NextAnalyze == Analyze \/ Finalize

SpecAnalyze == InitAnalyze /\ [][NextAnalyze]_vars


\* one iteration of the loop of expand_aliases(cmd, policy.aliases)
ExpandIteration ==
    /\ expansion # <<>>
    /\ ~expansion.returned
    /\ expansion.iterations < MaxAliasHops
    /\ expansion' = expand_iteration(expansion, policy.aliases)
    /\ UNCHANGED <<policy, cmd, verdict>>
    /\ UNCHANGED <<validateVars, deltaVars, sortVars, analyzeVars, cardVars, applyVars, scanVars>>
    /\ UNCHANGED commandVars

\* the loop ran 8 times: `current` is returned after it
ExpandExhausted ==
    /\ expansion # <<>>
    /\ ~expansion.returned
    /\ expansion.iterations = MaxAliasHops
    /\ expansion' = [expansion EXCEPT !.returned = TRUE]
    /\ UNCHANGED <<policy, cmd, verdict>>
    /\ UNCHANGED <<validateVars, deltaVars, sortVars, analyzeVars, cardVars, applyVars, scanVars>>
    /\ UNCHANGED commandVars

InitExpand ==
    /\ policy \in [forbidden : {<<>>}, aliases : ExpandAliasInputs]
    /\ cmd \in ExpandCommandInputs
    /\ verdict = None
    /\ expansion = expand_start(cmd)
    /\ ValidateIdle
    /\ DeltaIdle
    /\ SortIdle
    /\ AnalyzeIdle
    /\ CardIdle
    /\ ApplyIdle
    /\ ScanIdle
    /\ CommandIdle

\* is_forbidden_with_policy on commands that head alias chains
InitChain ==
    /\ policy \in ChainPolicyInputs
    /\ cmd \in ExpandCommandInputs
    /\ verdict = None
    /\ expansion = <<>>
    /\ ValidateIdle
    /\ DeltaIdle
    /\ SortIdle
    /\ AnalyzeIdle
    /\ CardIdle
    /\ ApplyIdle
    /\ ScanIdle
    /\ CommandIdle

NextChain == IsForbidden

SpecChain == InitChain /\ [][NextChain]_vars

NextExpand == ExpandIteration \/ ExpandExhausted

\* expand_aliases is straight-line code with one bounded loop: a call that
\* can take a step takes it
SpecExpand == InitExpand /\ [][NextExpand]_vars /\ WF_vars(NextExpand)


(* execute_apply, one statement at a time.  apply_steps records what the  *)
(* call has done so far; a write is recorded with the path it wrote.       *)

Step(name, path) == [step |-> name, path |-> path]

ApplyOthersUnchanged ==
    UNCHANGED <<policyVars, expansion, validateVars, deltaVars, sortVars, analyzeVars,
                cardVars, scanVars, commandVars>>

\* `return` / `?` of execute_apply
Return(result) ==
    /\ apply_pc' = "returned"
    /\ apply_result' = Some(result)

Goto(pc) ==
    /\ apply_pc' = pc
    /\ apply_result' = apply_result

WritesSoFar == Len(SelectSeq(apply_steps, LAMBDA s : s.step = "write"))

\* `let loaded = load_config(root)?;`
ApplyLoadConfig ==
    /\ apply_pc = "load_config"
    /\ IF apply_world.config.kind = "Err"
       THEN /\ Return(apply_world.config)
            /\ UNCHANGED <<apply_loaded, apply_steps>>
       ELSE /\ apply_loaded' = apply_world.config.value
            /\ apply_steps' = Append(apply_steps, Step("load_config", ""))
            /\ Goto("check_clean_tree")
    /\ UNCHANGED <<apply_cmd, apply_world, apply_plan, apply_changes>>
    /\ ApplyOthersUnchanged

\* `if !cmd.allow_dirty { check_clean_tree(root, loaded.as_ref())?; }`
ApplyCheckCleanTree ==
    /\ apply_pc = "check_clean_tree"
    /\ IF apply_cmd.allow_dirty
       THEN Goto("resolve_plan") /\ UNCHANGED apply_steps
       ELSE LET checked == check_clean_tree(apply_world.tree, apply_loaded) IN
            IF checked.kind = "Err"
            THEN Return(checked) /\ UNCHANGED apply_steps
            ELSE /\ apply_steps' = Append(apply_steps, Step("check_clean_tree", ""))
                 /\ Goto("resolve_plan")
    /\ UNCHANGED <<apply_cmd, apply_world, apply_loaded, apply_plan, apply_changes>>
    /\ ApplyOthersUnchanged

\* `let plan = resolve_plan(root, cmd, loaded.as_ref())?;`
ApplyResolvePlan ==
    /\ apply_pc = "resolve_plan"
    /\ LET plan == resolve_plan(apply_cmd, apply_world, apply_loaded) IN
       IF plan.kind = "Err"
       THEN Return(plan) /\ UNCHANGED <<apply_plan, apply_steps>>
       ELSE /\ apply_plan' = plan.value
            /\ apply_steps' = Append(apply_steps, Step("resolve_plan", ""))
            /\ Goto("build_changes")
    /\ UNCHANGED <<apply_cmd, apply_world, apply_loaded, apply_changes>>
    /\ ApplyOthersUnchanged

\* `let changes = build_changes(root, &plan)?;`
ApplyBuildChanges ==
    /\ apply_pc = "build_changes"
    /\ apply_changes' = build_changes(apply_world.files, apply_plan)
    /\ apply_steps' = Append(apply_steps, Step("build_changes", ""))
    /\ Goto("validate")
    /\ UNCHANGED <<apply_cmd, apply_world, apply_loaded, apply_plan>>
    /\ ApplyOthersUnchanged

\* `guardrails::validate_with_config(&[], changes.len() as u32, loaded.as_ref())?;`
ApplyValidate ==
    /\ apply_pc = "validate"
    /\ LET guard == validate_with_config(<<>>, Len(apply_changes), apply_loaded) IN
       IF guard # Ok
       THEN Return(Err(guard)) /\ UNCHANGED apply_steps
       ELSE /\ apply_steps' = Append(apply_steps, Step("validate", ""))
            /\ Goto("scope")
    /\ UNCHANGED <<apply_cmd, apply_world, apply_loaded, apply_plan, apply_changes>>
    /\ ApplyOthersUnchanged

\* `print_scope_summary(&changes); if changes.is_empty() { ...; return Ok(()); }`
ApplyScope ==
    /\ apply_pc = "scope"
    /\ IF apply_changes = <<>>
       THEN Return(Okay("no-op: no changes required"))
            /\ UNCHANGED apply_steps
       ELSE /\ apply_steps' = Append(apply_steps, Step("scope", ""))
            /\ Goto("mode")
    /\ UNCHANGED <<apply_cmd, apply_world, apply_loaded, apply_plan, apply_changes>>
    /\ ApplyOthersUnchanged

\* `if matches!(cmd.apply_mode, ApplyMode::Preview) { return Ok(()); }`
ApplyPreview ==
    /\ apply_pc = "mode"
    /\ IF preview_stops(apply_cmd)
       THEN Return(Okay("preview: no files were written")) /\ UNCHANGED apply_steps
       ELSE /\ apply_steps' = Append(apply_steps, Step("mode", ""))
            /\ Goto("confirm")
    /\ UNCHANGED <<apply_cmd, apply_world, apply_loaded, apply_plan, apply_changes>>
    /\ ApplyOthersUnchanged

\* `if !cmd.yes && !confirm_apply()? { println!("apply cancelled"); return Ok(()); }`
ApplyConfirm ==
    /\ apply_pc = "confirm"
    /\ IF ~apply_cmd.yes /\ ~confirm_apply(apply_world.answer)
       THEN Return(Okay("apply cancelled")) /\ UNCHANGED apply_steps
       ELSE /\ apply_steps' = Append(apply_steps, Step("confirm", ""))
            /\ Goto("manifest")
    /\ UNCHANGED <<apply_cmd, apply_world, apply_loaded, apply_plan, apply_changes>>
    /\ ApplyOthersUnchanged

\* `create_rollback_manifest(root, &changes)?;`
ApplyWriteManifest ==
    /\ apply_pc = "manifest"
    /\ IF apply_world.write_failure = WritesSoFar + 1
       THEN Return(Err([kind |-> "Io"])) /\ UNCHANGED <<apply_world, apply_steps>>
       ELSE /\ apply_world' = [apply_world EXCEPT
                                 !.files = write_file(@, ManifestPath, "present")]
            /\ apply_steps' = Append(apply_steps, Step("write", ManifestPath))
            /\ Goto("apply_changes")
    /\ UNCHANGED <<apply_cmd, apply_loaded, apply_plan, apply_changes>>
    /\ ApplyOthersUnchanged

\* one iteration of the loop of apply_changes; `Ok(())` after the last one
ApplyWriteChange ==
    /\ apply_pc = "apply_changes"
    /\ LET change == apply_changes[WritesSoFar] IN
       IF apply_world.write_failure = WritesSoFar + 1
       THEN Return(Err([kind |-> "Io"])) /\ UNCHANGED <<apply_world, apply_steps>>
       ELSE /\ apply_world' = [apply_world EXCEPT
                                 !.files = write_file(@, change.path, change.content)]
            /\ apply_steps' = Append(apply_steps, Step("write", change.path))
            /\ IF WritesSoFar = Len(apply_changes)
               THEN Return(Okay("apply complete"))
               ELSE Goto("apply_changes")
    /\ UNCHANGED <<apply_cmd, apply_loaded, apply_plan, apply_changes>>
    /\ ApplyOthersUnchanged

InitApply ==
    /\ apply_cmd \in [allow_dirty : BOOLEAN, plan_all : BOOLEAN,
                      apply_mode : {"Preview", "Apply"}, yes : BOOLEAN]
    /\ apply_world \in ApplyWorldInputs
    /\ apply_cmd.plan_all = (apply_world.plan_file = NoPlanFile)
    /\ apply_pc = "load_config"
    /\ apply_loaded = None
    /\ apply_plan = <<>>
    /\ apply_changes = <<>>
    /\ apply_steps = <<>>
    /\ apply_result = None
    /\ PolicyIdle
    /\ ValidateIdle
    /\ DeltaIdle
    /\ SortIdle
    /\ AnalyzeIdle
    /\ CardIdle
    /\ ScanIdle
    /\ CommandIdle

NextApply ==
    \/ ApplyLoadConfig
    \/ ApplyCheckCleanTree
    \/ ApplyResolvePlan
    \/ ApplyBuildChanges
    \/ ApplyValidate
    \/ ApplyScope
    \/ ApplyPreview
    \/ ApplyConfirm
    \/ ApplyWriteManifest
    \/ ApplyWriteChange

SpecApply == InitApply /\ [][NextApply]_vars


(* The optimize command: the trace file grows by one line at a time, and   *)
(* one run of the command scans it, classifies the delta, analyzes the     *)
(* repository and renders the report.                                      *)

\* a line is appended to the trace file
WriteTraceLine ==
    /\ Len(trace_lines) < MaxTraceLines
    /\ \E line \in TraceLineInputs : trace_lines' = Append(trace_lines, line)
    /\ scan' = None
    /\ rendered' = None
    /\ traces' = <<>>
    /\ thresholds' = None
    /\ delta' = None
    /\ model' = <<>>
    /\ report' = None
    /\ UNCHANGED <<profile, loaded>>
    /\ UNCHANGED <<policyVars, expansion, validateVars, sortVars, cardVars, applyVars>>
    /\ UNCHANGED commandVars

\* the Optimize branch of run: scan_traces(..)?, compute_optimize_delta,
\* scan::discover, analyze::analyze, render_optimize_report
RunOptimize ==
    /\ scan = None
    /\ \E t \in OptimizeThresholdInputs, m \in OptimizeModelInputs :
          LET trace_data == scan_traces(trace_lines, t.trace_staleness_days, Now) IN
          /\ thresholds' = Some(t)
          /\ scan' = Some(trace_data)
          /\ IF trace_data.kind = "Err"
             THEN /\ traces' = <<>>
                  /\ delta' = None
                  /\ model' = <<>>
                  /\ report' = None
                  /\ rendered' = None
             ELSE LET optimize_delta == compute_optimize_delta(trace_data.value.recent, t)
                      rep == analyze(m, loaded)
                  IN  /\ traces' = trace_data.value.recent
                      /\ delta' = Some(optimize_delta)
                      /\ model' = m
                      /\ report' = Some(rep)
                      /\ rendered' = Some(render_optimize_report(rep, trace_data.value.stats,
                                                                 t, optimize_delta))
    /\ UNCHANGED <<profile, loaded, trace_lines>>
    /\ UNCHANGED <<policyVars, expansion, validateVars, sortVars, cardVars, applyVars>>
    /\ UNCHANGED commandVars

InitOptimize ==
    /\ profile = "scan"
    /\ traces = <<>>
    /\ thresholds = None
    /\ delta = None
    /\ ScanIdle
    /\ PolicyIdle
    /\ ValidateIdle
    /\ SortIdle
    /\ AnalyzeIdle
    /\ CardIdle
    /\ ApplyIdle
    /\ CommandIdle

NextOptimize == WriteTraceLine \/ RunOptimize

SpecOptimize == InitOptimize /\ [][NextOptimize]_vars


(* The analyze, lint and suggest commands: one run of the command on a     *)
(* repository with its configuration files.                                *)

NameOnly == (<<"project", "name">> :> "sample")

\* harness.toml of the repository, None when there is none
RepoFileInputs ==
    { None,
      Some(NameOnly),
      Some(NameOnly @@ (<<"project", "profile">> :> "ops")),
      Some(NameOnly @@ (<<"metrics", "weights", "tools">> :> Hundredths(50))),
      Some(NameOnly @@ (<<"verification", "pre_completion_required">> :> TRUE)),
      Some(NameOnly @@ (<<"verification", "required">> :> << <<"cargo", SP, "test">> >>)
                    @@ (<<"verification", "pre_completion_required">> :> TRUE)
                    @@ (<<"verification", "loop_guard_enabled">> :> TRUE)),
      Some(NameOnly @@ (<<"tools", "baseline", "read">> :> <<"RG", "grep", " ", " rm">>)),
      Some(NameOnly @@ (<<"tools", "deprecated", "deprecated">> :> <<ApplyPatch>>)
                    @@ (<<"tools", "deprecated", "disabled">> :> <<ApplyPatch>>)),
      Some((<<"project", "profile">> :> "agent")) }

\* ~/.config/harness/config.toml
GlobalFileInputs ==
    { None,
      Some((<<"project", "name">> :> "global") @@ (<<"project", "profile">> :> "ops")),
      Some((<<"metrics", "weights", "context">> :> Hundredths(5))) }

\* .harness/local.toml
LocalFileInputs ==
    { None,
      Some((<<"project", "profile">> :> "general")),
      Some((<<"metrics", "weights", "tools">> :> Hundredths(25))) }

ConfigFilesInputs ==
    [global : GlobalFileInputs, repo : RepoFileInputs, local : LocalFileInputs]

\* the repository: a path that does not exist, a directory without .git, or a
\* git repository with or without its documents
WorktreeInputs ==
    {[path |-> u[1], file_count |-> 100, docs |-> u[2], continuity |-> u[3][1],
      quality |-> u[3][2]] :
        u \in {<<"missing", d, cq>> : d \in {CHOOSE x \in DocsInputs : ~x.has_agents_md},
                                      cq \in {CHOOSE x \in ContinuityQualityInputs : x[3] = 100}}
              \cup {<<"no_git", d, cq>> : d \in {CHOOSE x \in DocsInputs : ~x.has_agents_md},
                                          cq \in {CHOOSE x \in ContinuityQualityInputs : x[3] = 100}}
              \cup {<<"git", d, cq>> : d \in {x \in DocsInputs : x.has_agents_md = x.has_context_index},
                                       cq \in {x \in ContinuityQualityInputs : x[3] # 19}}}

CliInputs ==
    {[name |-> "analyze", min_impact |-> "All"], [name |-> "analyze", min_impact |-> "Safe"],
     [name |-> "lint", min_impact |-> "All"], [name |-> "suggest", min_impact |-> "All"]}

\* `harness analyze`
RunAnalyze ==
    /\ cli_outcome = None
    /\ cli_args.name = "analyze"
    /\ cli_outcome' = Some(run_analyze(cli_args, worktree, config_files))
    /\ UNCHANGED <<cli_args, worktree, config_files>>
    /\ UNCHANGED <<policyVars, expansion, validateVars, deltaVars, sortVars, analyzeVars,
                   cardVars, applyVars, scanVars>>

\* `harness lint`
RunLint ==
    /\ cli_outcome = None
    /\ cli_args.name = "lint"
    /\ cli_outcome' = Some(run_lint(cli_args, worktree, config_files))
    /\ UNCHANGED <<cli_args, worktree, config_files>>
    /\ UNCHANGED <<policyVars, expansion, validateVars, deltaVars, sortVars, analyzeVars,
                   cardVars, applyVars, scanVars>>

\* `harness suggest`
RunSuggest ==
    /\ cli_outcome = None
    /\ cli_args.name = "suggest"
    /\ cli_outcome' = Some(run_suggest(cli_args, worktree, config_files))
    /\ UNCHANGED <<cli_args, worktree, config_files>>
    /\ UNCHANGED <<policyVars, expansion, validateVars, deltaVars, sortVars, analyzeVars,
                   cardVars, applyVars, scanVars>>

InitCommand ==
    /\ cli_args \in CliInputs
    /\ worktree \in WorktreeInputs
    /\ config_files \in ConfigFilesInputs
    /\ cli_outcome = None
    /\ PolicyIdle
    /\ ValidateIdle
    /\ DeltaIdle
    /\ SortIdle
    /\ AnalyzeIdle
    /\ CardIdle
    /\ ApplyIdle
    /\ ScanIdle

NextCommand == RunAnalyze \/ RunLint \/ RunSuggest

SpecCommand == InitCommand /\ [][NextCommand]_vars


----------------------------------------------------------------------------
(* Reference notions used by the properties *)

\* the tokens of s: its maximal whitespace-free runs, listed by start index
TokenStarts(s) ==
    {i \in 1..Len(s) : s[i] \notin Whitespace /\ (i = 1 \/ s[i - 1] \in Whitespace)}
TokenEnd(s, i) ==
    CHOOSE j \in i..Len(s) :
        /\ \A k \in i..j : s[k] \notin Whitespace
        /\ (j = Len(s) \/ s[j + 1] \in Whitespace)
RECURSIVE TokensFrom(_, _)
TokensFrom(s, starts) ==
    IF starts = {} THEN <<>>
    ELSE LET i == CHOOSE x \in starts : \A y \in starts : x <= y
         IN  <<SubSeq(s, i, TokenEnd(s, i))>> \o TokensFrom(s, starts \ {i})
TokensOf(s) == TokensFrom(s, TokenStarts(s))

IsPrefixOf(p, s) == Len(p) <= Len(s) /\ SubSeq(s, 1, Len(p)) = p

\* a token sequence is matched by a rule list: bidirectional token-prefix test
MatchedBy(tokens, forbidden) ==
    /\ tokens # <<>>
    /\ \E i \in DOMAIN forbidden :
          LET rule == TokensOf(forbidden[i])
          IN  rule # <<>> /\ (IsPrefixOf(tokens, rule) \/ IsPrefixOf(rule, tokens))

NoAliasPolicy(rules) == [forbidden |-> rules, aliases |-> EmptyAliases]

----------------------------------------------------------------------------
(* Properties of the command policy matcher (specification Spec) *)

\* C1: is_forbidden_with_policy is true exactly when the normalized,
\* alias-expanded command has a token and is a token-prefix of some non-empty
\* rule or extends one; hence a command extending a rule and a bare first
\* token of a rule are forbidden, a diverging command is allowed, and empty or
\* blank commands and rules never match.
C1_BidirectionalPrefix ==
    IsSome(verdict) =>
        /\ Unwrap(verdict) =
             MatchedBy(TokensOf(expand_aliases(normalize(cmd), policy.aliases)),
                       policy.forbidden)
        /\ (TokensOf(cmd) = <<>> => Unwrap(verdict) = FALSE)
        /\ (\A i \in DOMAIN policy.forbidden : TokensOf(policy.forbidden[i]) = <<>>)
              => Unwrap(verdict) = FALSE
        /\ policy = NoAliasPolicy(<<GitPushForce>>) =>
              /\ cmd = <<"git", SP, "push", SP, "--force", SP, "origin", SP, "main">>
                    => Unwrap(verdict) = TRUE
              /\ cmd = <<"git", SP, "push", SP, "origin", SP, "main">>
                    => Unwrap(verdict) = FALSE
        /\ (policy = NoAliasPolicy(<< <<"rm", SP, "-rf">> >>) /\ cmd = <<"rm">>)
              => Unwrap(verdict) = TRUE

\* C1 witness: a command that is only the first token of a longer rule was
\* judged forbidden
C1_Witness ==
    /\ verdict = Some(TRUE)
    /\ policy = NoAliasPolicy(<< <<"rm", SP, "-rf">> >>)
    /\ cmd = <<"rm">>

AllTargetsHaveTokens(aliases) == \A k \in DOMAIN aliases : TokensOf(aliases[k]) # <<>>

\* the command is judged as: the resolution of its head alone, followed by
\* its remaining arguments unchanged
JudgedAsHeadThenArgs ==
    LET tokens == TokensOf(cmd)
        head == TokensOf(expand_aliases(Head(tokens), policy.aliases))
    IN  Unwrap(verdict) = MatchedBy(head \o Tail(tokens), policy.forbidden)

\* a command whose head is no alias key is judged as written, whatever alias
\* names its arguments contain
NonHeadNeverExpanded ==
    LET tokens == TokensOf(cmd)
    IN  (tokens # <<>> /\ Head(tokens) \notin DOMAIN policy.aliases)
            => Unwrap(verdict) = MatchedBy(tokens, policy.forbidden)

GpfExample ==
    (/\ policy = [forbidden |-> <<GitPushForce>>,
                  aliases |-> [k \in {<<"gpf">>} |-> GitPushForce]]
     /\ cmd = <<"gpf", SP, "origin", SP, "main">>) => Unwrap(verdict) = TRUE

\* C2 as stated: only the head token is ever replaced, for every alias map
C2_OnlyHeadReplaced_Original ==
    (IsSome(verdict) /\ TokensOf(cmd) # <<>>) =>
        /\ JudgedAsHeadThenArgs
        /\ NonHeadNeverExpanded
        /\ GpfExample

\* C2 (amended): alias resolution replaces only the first token - the command
\* is judged as the resolution of its head followed by the unchanged
\* arguments - provided every alias expansion has at least one token; a
\* command whose head is not an alias is judged as written.
C2_OnlyHeadReplaced ==
    (IsSome(verdict) /\ TokensOf(cmd) # <<>>) =>
        /\ AllTargetsHaveTokens(policy.aliases) => JudgedAsHeadThenArgs
        /\ NonHeadNeverExpanded
        /\ GpfExample

\* C2 witness: the head was replaced through two aliases while the argument,
\* itself an alias name, was kept
C2_Witness ==
    /\ IsSome(verdict)
    /\ cmd = <<"rm", SP, "-rf">>
    /\ DOMAIN policy.aliases = AliasKeys
    /\ policy.aliases[<<"rm">>] = <<"-rf">>
    /\ policy.aliases[<<"-rf">>] = <<"-rf", SP, SP, "rm">>
    /\ expand_aliases(normalize(cmd), policy.aliases) = <<"-rf", SP, "rm", SP, "-rf">>

----------------------------------------------------------------------------
(* Properties of validate_with_config (specification SpecValidate) *)

ForbiddenIndexes ==
    LET p == policy_from_config(config)
    IN  {i \in DOMAIN commands :
            MatchedBy(TokensOf(expand_aliases(normalize(commands[i]), p.aliases)),
                      p.forbidden)}

\* C3: validate_with_config returns ForbiddenToolAccess with the first
\* forbidden command whenever some command is forbidden, also at or above the
\* loop threshold; with no forbidden command it fails exactly when
\* planned_edits >= 25; otherwise it returns Ok.
C3_ForbiddenBeforeLoopGuard ==
    IsSome(validation) =>
        LET r == Unwrap(validation) IN
        /\ ForbiddenIndexes # {} =>
              /\ r.kind = "ForbiddenToolAccess"
              /\ r.command = commands[CHOOSE i \in ForbiddenIndexes :
                                        \A j \in ForbiddenIndexes : i <= j]
        /\ ForbiddenIndexes = {} =>
              /\ (r.kind # "Ok") = (planned_edits >= 25)
              /\ r.kind \in {"Ok", "ConfigParse"}
        /\ (detect_loop(25) /\ ~detect_loop(24))

\* C3 witness: two different forbidden commands and an edit count at the
\* threshold; the first command is reported
C3_Witness ==
    /\ IsSome(validation)
    /\ Len(commands) = 2
    /\ ForbiddenIndexes = {1, 2}
    /\ commands[1] # commands[2]
    /\ planned_edits >= 25
    /\ Unwrap(validation) = ForbiddenToolAccess(commands[1])

----------------------------------------------------------------------------
(* Reference notions for the classifier, read off the trace records *)

D == Unwrap(delta)
T == Unwrap(thresholds)

RevisionsIn(ts) == {ts[i].revision : i \in DOMAIN ts}
RecordsOf(ts, rev) == {i \in DOMAIN ts : ts[i].revision = rev}
CountOf(ts, rev) == Cardinality(RecordsOf(ts, rev))
LatestTs(ts, rev) ==
    CHOOSE x \in {ts[i].timestamp : i \in RecordsOf(ts, rev)} :
        \A i \in RecordsOf(ts, rev) : ts[i].timestamp <= x
TasksOf(ts, rev) == {ts[i].task_id : i \in RecordsOf(ts, rev)}
NameRank(rev) == CHOOSE i \in DOMAIN RevisionNames : RevisionNames[i] = rev

\* rev1 is ordered before rev2: older, or equally recent with the smaller name
Before(ts, rev1, rev2) ==
    \/ LatestTs(ts, rev1) < LatestTs(ts, rev2)
    \/ LatestTs(ts, rev1) = LatestTs(ts, rev2) /\ NameRank(rev1) < NameRank(rev2)

LastOf(ts, revs) == CHOOSE r \in revs : \A q \in revs \ {r} : Before(ts, q, r)
RefCurrent(ts) == LastOf(ts, RevisionsIn(ts))
RefBaseline(ts) == LastOf(ts, RevisionsIn(ts) \ {RefCurrent(ts)})

RECURSIVE SumOver(_, _, _)
SumOver(ts, idx, field) ==
    IF idx = {} THEN 0
    ELSE LET i == CHOOSE x \in idx : TRUE
         IN  Unwrap(ts[i][field]) + SumOver(ts, idx \ {i}, field)

\* mean of a field over the records of rev that report it, 0 if none does
RefAverage(ts, rev, field) ==
    LET reporting == {i \in RecordsOf(ts, rev) : ts[i][field] # None}
    IN  IF reporting = {} THEN Zero
        ELSE Rat(SumOver(ts, reporting, field), Cardinality(reporting))

RefCompletionRate(ts, rev) ==
    Rat(Cardinality({i \in RecordsOf(ts, rev) : ts[i].outcome = "success"}),
        CountOf(ts, rev))

RefJaccard(a, b) == Rat(Cardinality(a \cap b), Cardinality(a \cup b))

TwoRevisions == Cardinality(RevisionsIn(traces)) >= 2
CountsPass ==
    /\ CountOf(traces, RefBaseline(traces)) >= T.min_traces
    /\ CountOf(traces, RefCurrent(traces)) >= T.min_traces
RefOverlap ==
    RefJaccard(TasksOf(traces, RefBaseline(traces)), TasksOf(traces, RefCurrent(traces)))
OverlapPasses == RatGe(RefOverlap, T.task_overlap_threshold)
GatesPass == TwoRevisions /\ CountsPass /\ OverlapPasses

UpSignal(x, threshold) ==
    IF RatGe(x, threshold) THEN 1 ELSE IF RatLe(x, RatNeg(threshold)) THEN -1 ELSE 0
DownSignal(x, threshold) ==
    IF RatLe(x, RatNeg(threshold)) THEN 1 ELSE IF RatGe(x, threshold) THEN -1 ELSE 0

CompletionSignal == UpSignal(D.completion_delta, T.min_uplift_abs)
TokenSignal == DownSignal(D.token_delta_rel, T.min_uplift_rel)
StepSignal == DownSignal(D.step_delta_rel, T.min_uplift_rel)
SignalSum == CompletionSignal + TokenSignal + StepSignal

NeutralReason == Some(<<"changes are below configured uplift thresholds">>)

----------------------------------------------------------------------------
(* Properties of compute_optimize_delta *)

\* C4: when all three gates pass, the status follows the sum of the
\* completion, token and step signals: Improvement iff the sum is positive,
\* Regression iff negative, Neutral with its fixed reason iff zero.
C4_StatusFromSignalSum ==
    (IsSome(delta) /\ GatesPass) =>
        /\ (D.status = Improvement) = (SignalSum > 0)
        /\ (D.status = Regression) = (SignalSum < 0)
        /\ (D.status = Neutral) = (SignalSum = 0)
        /\ D.status = Neutral => D.reason = NeutralReason

\* C4 witness: one improving, one regressing and one unchanged signal: Neutral
C4_Witness ==
    /\ IsSome(delta) /\ GatesPass
    /\ CompletionSignal = 1 /\ TokenSignal = -1 /\ StepSignal = 0
    /\ D.status = Neutral

\* C5: an InsufficientData result has a reason and zero deltas; Improvement,
\* Regression and Neutral occur only when all three gates passed; the reason
\* is absent exactly for Improvement and Regression; every input yields a
\* result.
C5_ResultShape ==
    IsSome(delta) =>
        /\ D.status \in {InsufficientData, Improvement, Regression, Neutral}
        /\ D.status = InsufficientData =>
              /\ IsSome(D.reason) /\ Unwrap(D.reason) # <<>>
              /\ D.completion_delta = Zero
              /\ D.token_delta_rel = Zero
              /\ D.step_delta_rel = Zero
        /\ D.status # InsufficientData => GatesPass
        /\ (D.reason = None) = (D.status \in {Improvement, Regression})

\* C5 witness: the overlap gate rejected two revisions whose completion rates
\* differ, and the reported deltas are zero
C5_Witness ==
    /\ IsSome(delta) /\ TwoRevisions /\ CountsPass /\ ~OverlapPasses
    /\ RefCompletionRate(traces, RefBaseline(traces))
         # RefCompletionRate(traces, RefCurrent(traces))
    /\ D.status = InsufficientData /\ D.completion_delta = Zero

\* C6: fewer than two distinct revision tags give InsufficientData with the
\* reason 'need traces from at least two revisions' and neither a baseline nor
\* a current revision, for the empty record set and for any number of records
\* of one revision.
C6_FewerThanTwoRevisions ==
    (IsSome(delta) /\ ~TwoRevisions) =>
        /\ D.status = InsufficientData
        /\ D.reason = Some(<<"need traces from at least two revisions">>)
        /\ D.baseline_revision = None
        /\ D.current_revision = None

\* C6 witness: several records, all of one revision
C6_Witness ==
    /\ IsSome(delta)
    /\ Len(traces) >= 2
    /\ Cardinality(RevisionsIn(traces)) = 1
    /\ D.status = InsufficientData

\* the exchanges of two elements of a set (they generate every renaming)
Exchanges(S) ==
    {[x \in S |-> IF x = a THEN b ELSE IF x = b THEN a ELSE x] : a, b \in S}

Renamed(ts, f) == [i \in DOMAIN ts |-> [ts[i] EXCEPT !.revision = f[ts[i].revision]]]
RenamedResult(d, f) ==
    [d EXCEPT !.baseline_revision = Some(f[Unwrap(d.baseline_revision)]),
              !.current_revision = Some(f[Unwrap(d.current_revision)])]
Swapped(ts, i, j) ==
    [k \in DOMAIN ts |-> IF k = i THEN ts[j] ELSE IF k = j THEN ts[i] ELSE ts[k]]
OnlyRevisions(ts, revs) ==
    LET Keep(record) == record.revision \in revs IN SelectSeq(ts, Keep)

AllRevisionNames == {RevisionNames[i] : i \in DOMAIN RevisionNames}
DistinctRecency ==
    \A r, q \in RevisionsIn(traces) : r # q => LatestTs(traces, r) # LatestTs(traces, q)

\* current has the greatest and baseline the second greatest latest_ts
MostRecentTwo ==
    LET cur == Unwrap(D.current_revision)
        base == Unwrap(D.baseline_revision)
    IN  /\ cur \in RevisionsIn(traces) /\ base \in RevisionsIn(traces) /\ base # cur
        /\ \A r \in RevisionsIn(traces) : LatestTs(traces, r) <= LatestTs(traces, cur)
        /\ \A r \in RevisionsIn(traces) \ {cur} :
              LatestTs(traces, r) <= LatestTs(traces, base)

\* renaming the revisions renames the result and changes nothing else
NameIndependent ==
    \A f \in Exchanges(AllRevisionNames) :
        compute_optimize_delta(Renamed(traces, f), T) = RenamedResult(D, f)

\* exchanging two neighbouring records of the input changes nothing (every
\* reordering is a sequence of such exchanges)
OrderIndependent ==
    \A i \in DOMAIN traces :
        i < Len(traces) => compute_optimize_delta(Swapped(traces, i, i + 1), T) = D

\* the records of the revisions that are neither baseline nor current can be
\* removed without changing the result
OlderRevisionsIrrelevant ==
    compute_optimize_delta(
        OnlyRevisions(traces, {Unwrap(D.baseline_revision), Unwrap(D.current_revision)}),
        T) = D

\* C7 as stated: the two most recent revisions are compared and the choice
\* depends on recency only, never on the revision names
C7_RecencyOnly_Original ==
    (IsSome(delta) /\ TwoRevisions) =>
        /\ MostRecentTwo
        /\ NameIndependent
        /\ OrderIndependent
        /\ OlderRevisionsIrrelevant

\* C7 (amended): current is the revision with the greatest latest_ts and
\* baseline the one with the second greatest, where among revisions with the
\* same latest_ts the one with the greater name counts as more recent; the
\* choice does not depend on the input order, does not depend on the names
\* when all latest_ts differ, and older revisions influence nothing.
C7_RecencyThenName ==
    (IsSome(delta) /\ TwoRevisions) =>
        /\ MostRecentTwo
        /\ D.current_revision = Some(RefCurrent(traces))
        /\ D.baseline_revision = Some(RefBaseline(traces))
        /\ DistinctRecency => NameIndependent
        /\ OrderIndependent
        /\ OlderRevisionsIrrelevant

\* C7 witness: three revisions whose recency runs against their names
C7_Witness ==
    /\ IsSome(delta)
    /\ RevisionsIn(traces) = AllRevisionNames
    /\ LatestTs(traces, "rev-a") > LatestTs(traces, "rev-b")
    /\ LatestTs(traces, "rev-b") > LatestTs(traces, "rev-c")
    /\ D.current_revision = Some("rev-a")
    /\ D.baseline_revision = Some("rev-b")

\* the revisions that share the greatest latest_ts
MostRecentRevisions ==
    {r \in RevisionsIn(traces) :
        \A q \in RevisionsIn(traces) : LatestTs(traces, q) <= LatestTs(traces, r)}
SingleTimestamp == \A i, j \in DOMAIN traces : traces[i].timestamp = traces[j].timestamp

\* C26: when the two most recent revisions have the same latest_ts, the one
\* with the lexicographically smaller name is the baseline and the one with
\* the greater name is current; traces of rev-a and rev-b written with a
\* single timestamp are compared as baseline rev-a against current rev-b.
C26_EqualRecencyOrderedByName ==
    (IsSome(delta) /\ TwoRevisions) =>
        LET cur == Unwrap(D.current_revision)
            base == Unwrap(D.baseline_revision)
        IN  /\ Cardinality(MostRecentRevisions) >= 2 =>
                  /\ {base, cur} \subseteq MostRecentRevisions
                  /\ LatestTs(traces, base) = LatestTs(traces, cur)
                  /\ NameRank(base) < NameRank(cur)
                  /\ \A r \in MostRecentRevisions \ {base, cur} : NameRank(r) < NameRank(base)
            /\ (RevisionsIn(traces) = {"rev-a", "rev-b"} /\ SingleTimestamp) =>
                  base = "rev-a" /\ cur = "rev-b"

\* rev-b is written before rev-a, all records with one timestamp
C26_Witness ==
    /\ IsSome(delta)
    /\ RevisionsIn(traces) = {"rev-a", "rev-b"}
    /\ SingleTimestamp
    /\ traces[1].revision = "rev-b"
    /\ traces[Len(traces)].revision = "rev-a"
    /\ D.baseline_revision = Some("rev-a")
    /\ D.current_revision = Some("rev-b")

\* the same records with the records at positions i and j exchanged: every
\* other order of the records is reached by such exchanges
Reordered == {Swapped(traces, i, j) : i, j \in DOMAIN traces}

\* C29: compute_optimize_delta depends only on the multiset of the records
\* and the thresholds: the same records in another order give the same
\* status, baseline and current revision, deltas, task overlap and reason.
C29_RecordOrderIrrelevant ==
    IsSome(delta) =>
        \A ts \in Reordered :
            LET other == compute_optimize_delta(ts, T)
            IN  /\ other.status = D.status
                /\ other.baseline_revision = D.baseline_revision
                /\ other.current_revision = D.current_revision
                /\ other.completion_delta = D.completion_delta
                /\ other.token_delta_rel = D.token_delta_rel
                /\ other.step_delta_rel = D.step_delta_rel
                /\ other.task_overlap = D.task_overlap
                /\ other.reason = D.reason

\* the newest record of the current revision comes first, an older record of
\* the same revision last, and the completion rates differ
C29_Witness ==
    /\ IsSome(delta)
    /\ Len(traces) = 3
    /\ D.status = Regression
    /\ traces[1].revision = Unwrap(D.current_revision)
    /\ traces[3].revision = Unwrap(D.current_revision)
    /\ traces[2].revision = Unwrap(D.baseline_revision)
    /\ traces[1].timestamp > traces[2].timestamp
    /\ traces[2].timestamp > traces[3].timestamp



MinTracesText == "need at least {} traces per revision (baseline={}, current={})"
OverlapText == "task overlap {:.2} is below threshold {:.2}"

\* C8: with two revisions and a baseline or current record count below
\* min_traces the result is InsufficientData naming both revisions, its
\* reason states min_traces and both counts, and task_overlap is reported as
\* 0 whatever the task sets are; a count equal to min_traces passes.
C8_MinTracesGate ==
    (IsSome(delta) /\ TwoRevisions) =>
        LET base == RefBaseline(traces)
            cur == RefCurrent(traces)
        IN  /\ ~CountsPass =>
                  /\ D.status = InsufficientData
                  /\ D.baseline_revision = Some(base)
                  /\ D.current_revision = Some(cur)
                  /\ D.reason = Some(<<MinTracesText, T.min_traces,
                                       CountOf(traces, base), CountOf(traces, cur)>>)
                  /\ D.task_overlap = Zero
            /\ CountsPass => (D.reason = None \/ Unwrap(D.reason)[1] # MinTracesText)

\* C8 witness: the count gate rejects although the task overlap is positive
\* and below its own threshold
C8_Witness ==
    /\ IsSome(delta) /\ TwoRevisions /\ ~CountsPass
    /\ RefOverlap # Zero /\ ~OverlapPasses
    /\ CountOf(traces, RefCurrent(traces)) = T.min_traces
    /\ D.task_overlap = Zero

\* C9: task_overlap is |intersection| / |union| of the two task-id sets (0
\* for two empty sets); below task_overlap_threshold the result is
\* InsufficientData with that overlap and a reason giving overlap and
\* threshold; disjoint sets are rejected for every positive threshold, and an
\* overlap equal to the threshold passes.
C9_TaskOverlapGate ==
    /\ compute_task_overlap({}, {}) = Zero
    /\ (IsSome(delta) /\ TwoRevisions /\ CountsPass) =>
          /\ D.task_overlap = RefOverlap
          /\ ~OverlapPasses =>
                /\ D.status = InsufficientData
                /\ D.reason = Some(<<OverlapText, Fmt2(RefOverlap),
                                     Fmt2(T.task_overlap_threshold)>>)
          /\ OverlapPasses => D.status # InsufficientData
          /\ (RefOverlap = Zero /\ RatLt(Zero, T.task_overlap_threshold))
                => D.status = InsufficientData

\* C9 witness: an overlap of one half meets a threshold of one half
C9_Witness ==
    /\ IsSome(delta) /\ TwoRevisions /\ CountsPass
    /\ RefOverlap = <<1, 2>>
    /\ T.task_overlap_threshold = <<1, 2>>
    /\ D.status # InsufficientData
    /\ D.task_overlap = <<1, 2>>

RefRelative(base, cur) == IF base = Zero THEN Zero ELSE RatDiv(RatSub(cur, base), base)

\* C10: completion_delta is the difference of the success rates;
\* token_delta_rel and step_delta_rel are (current - baseline) / baseline of
\* the averages over the records that report the field, and 0 whenever the
\* baseline average is 0, as when no baseline record reports the field.
C10_Deltas ==
    (IsSome(delta) /\ GatesPass) =>
        LET base == RefBaseline(traces)
            cur == RefCurrent(traces)
        IN  /\ D.completion_delta =
                  RatSub(RefCompletionRate(traces, cur), RefCompletionRate(traces, base))
            /\ D.token_delta_rel =
                  RefRelative(RefAverage(traces, base, "token_est"),
                              RefAverage(traces, cur, "token_est"))
            /\ D.step_delta_rel =
                  RefRelative(RefAverage(traces, base, "steps"),
                              RefAverage(traces, cur, "steps"))

\* C10 witness: no baseline record reports tokens, the current revision does;
\* one of two current records reports steps
C10_Witness ==
    /\ IsSome(delta) /\ GatesPass
    /\ \A i \in RecordsOf(traces, RefBaseline(traces)) : traces[i].token_est = None
    /\ \E i \in RecordsOf(traces, RefCurrent(traces)) : traces[i].token_est # None
    /\ \E i, j \in RecordsOf(traces, RefCurrent(traces)) :
          traces[i].steps = None /\ traces[j].steps # None
    /\ D.token_delta_rel = Zero
    /\ D.step_delta_rel # Zero

\* the [optimization] table that sets the thresholds of this call
ThresholdsTable ==
    NameOnly @@ (<<"optimization", "min_traces">> :> T.min_traces)
             @@ (<<"optimization", "min_uplift_abs">> :> T.min_uplift_abs)
             @@ (<<"optimization", "min_uplift_rel">> :> T.min_uplift_rel)
             @@ (<<"optimization", "trace_staleness_days">> :> T.trace_staleness_days)
             @@ (<<"optimization", "task_overlap_threshold">> :> T.task_overlap_threshold)
\* HarnessConfig::validate accepts the thresholds and the call uses them
AcceptedByValidation ==
    /\ try_into(ThresholdsTable).kind = "Ok"
    /\ HarnessConfig_validate(try_into(ThresholdsTable).value).kind = "Ok"
    /\ optimization_thresholds(try_into(ThresholdsTable).value) = T
\* current and baseline have the same completion rate and the same averages
SameMetrics ==
    LET base == RefBaseline(traces)
        cur == RefCurrent(traces)
    IN  /\ RefCompletionRate(traces, cur) = RefCompletionRate(traces, base)
        /\ RefAverage(traces, cur, "token_est") = RefAverage(traces, base, "token_est")
        /\ RefAverage(traces, cur, "steps") = RefAverage(traces, base, "steps")

\* C28 as stated: when all gates pass and current and baseline have the same
\* completion rate, average tokens and average steps, the result is Neutral
\* for every threshold setting that validation accepts, 0 included.
C28_SameMetricsNeutral_Original ==
    (IsSome(delta) /\ GatesPass /\ SameMetrics /\ AcceptedByValidation) =>
        D.status = Neutral

\* C28, amended: with the same metrics and all gates passed the result is
\* Neutral for every accepted setting whose min_uplift_abs and min_uplift_rel
\* are both greater than 0, and Improvement when either of them is 0.
C28_SameMetricsNeutralAboveZero ==
    (IsSome(delta) /\ GatesPass /\ SameMetrics /\ AcceptedByValidation) =>
        /\ D.completion_delta = Zero /\ D.token_delta_rel = Zero /\ D.step_delta_rel = Zero
        /\ (RatLt(Zero, T.min_uplift_abs) /\ RatLt(Zero, T.min_uplift_rel)) =>
              D.status = Neutral /\ D.reason = NeutralReason
        /\ (T.min_uplift_abs = Zero \/ T.min_uplift_rel = Zero) =>
              D.status = Improvement

\* two revisions with the same non-zero metrics under the default thresholds
C28_Witness ==
    /\ IsSome(delta) /\ GatesPass /\ SameMetrics /\ AcceptedByValidation
    /\ RefCompletionRate(traces, RefCurrent(traces)) # Zero
    /\ RefAverage(traces, RefCurrent(traces), "token_est") # Zero
    /\ RatLt(Zero, T.min_uplift_abs) /\ RatLt(Zero, T.min_uplift_rel)
    /\ D.status = Neutral


----------------------------------------------------------------------------
(* Recommendation ranker *)

ImpactOrder == <<"Low", "Medium", "High">>
EffortOrder == <<"Xs", "S", "M", "L">>
PositionIn(order, x) == CHOOSE i \in DOMAIN order : order[i] = x
HigherImpact(a, b) == PositionIn(ImpactOrder, a.impact) > PositionIn(ImpactOrder, b.impact)
LowerEffort(a, b) == PositionIn(EffortOrder, a.effort) < PositionIn(EffortOrder, b.effort)
\* a <= b in the lexicographic order of byte strings
LexLe(a, b) ==
    \/ IsPrefixOf(a, b)
    \/ \E k \in 1..Min(Len(a), Len(b)) : a[k] < b[k] /\ \A j \in 1..(k - 1) : a[j] = b[j]

MayPrecede(a, b) ==
    \/ HigherImpact(a, b)
    \/ a.impact = b.impact /\ LowerEffort(a, b)
    \/ a.impact = b.impact /\ a.effort = b.effort /\ LexLe(a.id, b.id)

Occurrences(list, x) == Cardinality({i \in DOMAIN list : list[i] = x})
IsPermutationOf(a, b) ==
    /\ Len(a) = Len(b)
    /\ \A i \in DOMAIN b : Occurrences(a, b[i]) = Occurrences(b, b[i])

\* C11: after sort_recommendations the list is a permutation of the input,
\* and every item placed before another has the higher impact, or the same
\* impact and the lower effort, or the same impact and effort and an id that
\* is lexicographically less than or equal to the other's.
C11_SortedByImpactEffortId ==
    ranked =>
        /\ IsPermutationOf(recommendations, candidates)
        /\ \A i, j \in DOMAIN recommendations :
              i < j => MayPrecede(recommendations[i], recommendations[j])

\* C11 witness: the sort moved items, and among neighbours of the result one
\* pair is decided by impact, one by effort or by id
C11_Witness ==
    /\ ranked
    /\ recommendations # candidates
    /\ \E i \in 1..(Len(recommendations) - 1) :
          HigherImpact(recommendations[i], recommendations[i + 1])
    /\ \E i \in 1..(Len(recommendations) - 1) :
          /\ recommendations[i].impact = recommendations[i + 1].impact
          /\ recommendations[i].effort = recommendations[i + 1].effort
          /\ recommendations[i].id # recommendations[i + 1].id

UniqueIds(list) == \A i, j \in DOMAIN list : list[i].id = list[j].id => i = j
Rearrangements(n) == {f \in [1..n -> 1..n] : \A i, j \in 1..n : f[i] = f[j] => i = j}
Permuted(list, f) == [i \in DOMAIN list |-> list[f[i]]]
IdsOf(list) == [i \in DOMAIN list |-> list[i].id]
WithRiskConfidence(list, rc) ==
    [i \in DOMAIN list |->
        [list[i] EXCEPT !.risk = rc[i][1], !.confidence = clamp(Hundredths(rc[i][2]), Zero, One)]]

PermutationIndependent ==
    \A f \in Rearrangements(Len(candidates)) :
        sort_recommendations(Permuted(candidates, f)) = recommendations
Idempotent == sort_recommendations(recommendations) = recommendations
RiskConfidenceIndependent ==
    \A rc \in [DOMAIN candidates -> RiskConfidenceInputs] :
        IdsOf(sort_recommendations(WithRiskConfidence(candidates, rc))) = IdsOf(recommendations)
HighXsBeforeMediumXs ==
    \A i, j \in DOMAIN recommendations :
        /\ recommendations[i].impact = "High" /\ recommendations[i].effort = "Xs"
        /\ recommendations[j].impact = "Medium" /\ recommendations[j].effort = "Xs"
        => i < j

\* C12: with unique ids the sorted sequence is the same for every
\* permutation of the input, sorting the sorted list changes nothing, and the
\* order of the ids does not change when risk and confidence do; a High/Xs
\* recommendation stands before every Medium/Xs one.
C12_OrderIsCanonical ==
    ranked /\ UniqueIds(candidates) =>
        /\ PermutationIndependent
        /\ Idempotent
        /\ RiskConfidenceIndependent
        /\ HighXsBeforeMediumXs

\* C12 witness: a Medium/Xs candidate of full confidence was pushed before a
\* High/Xs one of lower confidence and a third candidate shares their effort
C12_Witness ==
    /\ ranked
    /\ UniqueIds(candidates)
    /\ Len(candidates) >= 3
    /\ \E i, j \in DOMAIN candidates :
          /\ i < j
          /\ candidates[i].impact = "Medium" /\ candidates[i].effort = "Xs"
          /\ candidates[j].impact = "High" /\ candidates[j].effort = "Xs"
          /\ RatLt(candidates[j].confidence, candidates[i].confidence)

----------------------------------------------------------------------------
(* Score card and findings *)

R == Unwrap(report)
InUnitInterval(x) == RatLe(Zero, x) /\ RatLe(x, One)
CategoriesOf(c) == <<c.context, c.tools, c.continuity, c.verification, c.repository_quality>>
AllInUnitInterval(c) ==
    /\ \A i \in 1..5 : InUnitInterval(CategoriesOf(c)[i])
    /\ InUnitInterval(c.overall)

\* C13: every category score and the overall score of the score card that
\* finalize returns, and that analyze reports, lie in [0,1] for every model,
\* every configuration and every weight vector.
C13_ScoresInUnitInterval ==
    /\ report # None => AllInUnitInterval(R.category_scores) /\ InUnitInterval(R.overall_score)
    /\ card # None => AllInUnitInterval(Unwrap(card))

Clamp01(x) == IF x[1] < 0 THEN Zero ELSE IF x[1] > x[2] THEN One ELSE x
RECURSIVE WeightedSumTo(_, _, _)
WeightedSumTo(n, scores, w) ==
    IF n = 0 THEN Zero
    ELSE RatAdd(WeightedSumTo(n - 1, scores, w), RatMul(Clamp01(scores[n]), w[n]))
RefWeighted(c, w) == WeightedSumTo(5, CategoriesOf(c), w)
RECURSIVE SumTo(_, _)
SumTo(n, w) == IF n = 0 THEN Zero ELSE RatAdd(SumTo(n - 1, w), w[n])

\* C14: weighted_overall is the sum over the five categories of the category
\* clamped to [0,1] times its weight: 1 when every category is 1 (or more)
\* and the weights sum to 1, 0 when every category is 0; finalize stores that
\* value as overall, and the report's overall_score is category_scores.overall.
C14_WeightedOverall ==
    /\ card # None =>
          /\ weighted_overall(raw_card, weights) = RefWeighted(raw_card, weights)
          /\ Unwrap(card).overall = RefWeighted(raw_card, weights)
          /\ (\A i \in 1..5 : RatGe(CategoriesOf(raw_card)[i], One)) /\ SumTo(5, weights) = One
                => Unwrap(card).overall = One
          /\ (\A i \in 1..5 : CategoriesOf(raw_card)[i] = Zero) => Unwrap(card).overall = Zero
    /\ report # None => R.overall_score = R.category_scores.overall

\* C14 witness: a card with one category below 0, one above 1 and one
\* strictly inside was finalized with weights that are not all equal
C14_Witness ==
    /\ card # None
    /\ \E i, j, k \in 1..5 :
          /\ RatLt(CategoriesOf(raw_card)[i], Zero)
          /\ RatLt(One, CategoriesOf(raw_card)[j])
          /\ RatLt(Zero, CategoriesOf(raw_card)[k]) /\ RatLt(CategoriesOf(raw_card)[k], One)
    /\ weights[1] # weights[5]
    /\ RatLt(Zero, Unwrap(card).overall)

FindingIds == {R.findings[i].id : i \in DOMAIN R.findings}
Emitted(id, blocking) ==
    \E i \in DOMAIN R.findings : R.findings[i].id = id /\ R.findings[i].blocking = blocking
\* the verification sub-score of the configuration, in hundredths
VerificationHundredths ==
    IF loaded = None \/ Unwrap(loaded).verification = None THEN 0
    ELSE LET v == Unwrap(Unwrap(loaded).verification) IN
         (IF v.required # <<>> THEN 50 ELSE 0) + (IF v.pre_completion_required THEN 30 ELSE 0)
         + (IF v.loop_guard_enabled THEN 20 ELSE 0)

\* C15: analyze never emits both verification findings: without a
\* configuration it emits the non-blocking verification.missing_config and
\* not verification.incomplete; with a configuration it never emits
\* verification.missing_config and emits the blocking verification.incomplete
\* exactly when the verification sub-score is below 0.5.
C15_VerificationFindings ==
    report # None =>
        /\ ~({"verification.missing_config", "verification.incomplete"} \subseteq FindingIds)
        /\ loaded = None =>
              /\ Emitted("verification.missing_config", FALSE)
              /\ "verification.incomplete" \notin FindingIds
        /\ loaded # None =>
              /\ "verification.missing_config" \notin FindingIds
              /\ "verification.incomplete" \in FindingIds <=> VerificationHundredths < 50
              /\ "verification.incomplete" \in FindingIds => Emitted("verification.incomplete", TRUE)
              /\ R.category_scores.verification = Hundredths(VerificationHundredths)

\* C15 witness: a configuration whose verification sub-score is exactly 0.5
\* (pre-completion and loop guard, no required command): no finding
C15_Witness ==
    /\ report # None
    /\ loaded # None
    /\ Unwrap(loaded).verification # None
    /\ Unwrap(Unwrap(loaded).verification).required = <<>>
    /\ VerificationHundredths = 50
    /\ "verification.incomplete" \notin FindingIds

ConfiguredList(field) ==
    IF loaded = None \/ Unwrap(loaded).tools = None
       \/ Unwrap(Unwrap(loaded).tools).deprecated = None
    THEN <<>>
    ELSE Unwrap(Unwrap(Unwrap(loaded).tools).deprecated)[field]
EmittedOnce(id) == Cardinality({i \in DOMAIN R.findings : R.findings[i].id = id}) = 1

\* C16: analyze emits tools.observe (non-blocking), tools.deprecated
\* (blocking) and tools.disabled (blocking) each exactly when the list of that
\* name is not empty, tools.destructive_exposed (blocking) exactly when the
\* count of unrestricted destructive tools is greater than 0, and no finding
\* id twice.
C16_LifecycleFindings ==
    report # None =>
        /\ "tools.observe" \in FindingIds <=> ConfiguredList("observe") # <<>>
        /\ "tools.deprecated" \in FindingIds <=> ConfiguredList("deprecated") # <<>>
        /\ "tools.disabled" \in FindingIds <=> ConfiguredList("disabled") # <<>>
        /\ "tools.destructive_exposed" \in FindingIds <=> model.tools.unrestricted_destructive > 0
        /\ "tools.observe" \in FindingIds => Emitted("tools.observe", FALSE)
        /\ "tools.deprecated" \in FindingIds => Emitted("tools.deprecated", TRUE)
        /\ "tools.disabled" \in FindingIds => Emitted("tools.disabled", TRUE)
        /\ "tools.destructive_exposed" \in FindingIds => Emitted("tools.destructive_exposed", TRUE)
        /\ \A id \in FindingIds : EmittedOnce(id)

\* C16 witness: tools under observation and disabled tools but no deprecated
\* one, and destructive tools exposed
C16_Witness ==
    /\ report # None
    /\ ConfiguredList("observe") # <<>>
    /\ ConfiguredList("deprecated") = <<>>
    /\ ConfiguredList("disabled") # <<>>
    /\ model.tools.unrestricted_destructive > 0
    /\ {"tools.observe", "tools.disabled", "tools.destructive_exposed"} \subseteq FindingIds
    /\ "tools.deprecated" \notin FindingIds

----------------------------------------------------------------------------
(* Termination of alias expansion *)

HeadOf(s) == IF TokensOf(s) = <<>> THEN None ELSE Some(Head(TokensOf(s)))
WasHeadBefore(e) ==
    IsSome(HeadOf(e.current)) /\ \E i \in DOMAIN e.heads : e.heads[i] = Unwrap(HeadOf(e.current))
\* one of the three reasons to stop holds of the locals e
MustStop(e, aliases) ==
    \/ HeadOf(e.current) = None
    \/ Unwrap(HeadOf(e.current)) \notin DOMAIN aliases
    \/ WasHeadBefore(e)
ReplacedHead ==
    /\ expansion'.iterations = expansion.iterations + 1
    /\ Len(expansion'.heads) = Len(expansion.heads) + 1
    /\ expansion'.current # expansion.current \/ expansion'.heads # expansion.heads
StepIsLegal ==
    /\ ~expansion.returned
    /\ IF MustStop(expansion, policy.aliases) \/ expansion.iterations = MaxAliasHops
       THEN expansion'.returned /\ expansion'.current = expansion.current
                                /\ expansion'.heads = expansion.heads
       ELSE ~expansion'.returned /\ ReplacedHead

\* C17: alias expansion terminates for every command and alias map: it
\* replaces the head at most 8 times, every step either replaces the head or
\* returns, and it returns as soon as the command is empty, the head is not
\* an alias key or the head has been a head before in the same call.
C17_ExpansionTerminates ==
    /\ [](Len(expansion.heads) <= MaxAliasHops /\ expansion.iterations = Len(expansion.heads))
    /\ [][StepIsLegal]_vars
    /\ <>(expansion.returned)

\* C17 witness: the loop ran 8 times on a chain of distinct aliases and
\* returned a command whose head is still an unexpanded alias
C17_Witness ==
    /\ expansion.returned
    /\ Len(expansion.heads) = MaxAliasHops
    /\ ~MustStop(expansion, policy.aliases)

----------------------------------------------------------------------------
(* C18: the order of checks and writes in execute_apply *)

\* the position in apply_steps of the statement `name`, 0 if it was not passed
PassedAt(name) ==
    LET at == {i \in DOMAIN apply_steps : apply_steps[i].step = name}
    IN  IF at = {} THEN 0 ELSE CHOOSE i \in at : \A j \in at : i <= j

WriteIndexes == {i \in DOMAIN apply_steps : apply_steps[i].step = "write"}

\* a step of execute_apply that writes a file
WritesAFile == apply_world'.files # apply_world.files

TreeIsClean == apply_world.tree = "clean"
PlanIsResolved == apply_cmd.plan_all \/ apply_world.plan_file.kind = "Ok"
ChangeCountAllowed == Len(apply_changes) <= DEFAULT_EDIT_THRESHOLD
UserConfirmed == apply_world.answer \in {"y", "yes"}

\* the checks hold and were passed in the order of the claim
ChecksPassedInOrder ==
    /\ apply_cmd.allow_dirty \/ (TreeIsClean /\ PassedAt("check_clean_tree") > 0)
    /\ PlanIsResolved
    /\ PassedAt("check_clean_tree") < PassedAt("resolve_plan")
    /\ PassedAt("resolve_plan") < PassedAt("validate")
    /\ ChangeCountAllowed
    /\ PassedAt("validate") < PassedAt("scope")
    /\ apply_changes # <<>>
    /\ PassedAt("scope") < PassedAt("mode")
    /\ apply_cmd.apply_mode = "Apply"
    /\ PassedAt("mode") < PassedAt("confirm")
    /\ apply_cmd.yes \/ UserConfirmed

\* the file a step writes is the manifest, or the manifest exists already
ManifestFirst ==
    \A path \in DOMAIN apply_world.files :
        apply_world'.files[path] # apply_world.files[path] =>
            path = ManifestPath \/ apply_world.files[ManifestPath] = "present"

\* C18: a step of execute_apply writes a file (the rollback manifest or a
\* planned change) only if the clean-tree check passed or --allow-dirty was
\* given, then the plan was resolved, then the guardrail validation of the
\* change count returned Ok, then the change set was found non-empty, then the
\* mode was found to be Apply, then the user confirmed or --yes was given; and
\* the rollback manifest is written before the first planned change.
C18_WritesOnlyAfterChecks ==
    [][WritesAFile => (ChecksPassedInOrder /\ ManifestFirst)]_vars

\* an apply without --allow-dirty and without --yes that wrote the manifest
\* and two planned changes
C18_Witness ==
    /\ apply_pc = "returned"
    /\ apply_result = Some(Okay("apply complete"))
    /\ ~apply_cmd.allow_dirty
    /\ ~apply_cmd.yes
    /\ Cardinality(WriteIndexes) >= 3
    /\ apply_steps[CHOOSE i \in WriteIndexes : \A j \in WriteIndexes : i <= j].path = ManifestPath
    /\ apply_world.files[AgentsPath] = "with_link"

----------------------------------------------------------------------------
(* C19, C20: the optimize report and the trace scan *)

Text == Unwrap(rendered)
Stats == Unwrap(scan).value.stats
HasLine(text, format) ==
    \E i \in DOMAIN text : text[i] # <<>> /\ Head(text[i]) = format
\* the text has the line "Reason: ..." with the reason of the delta
ShowsReasonOf(text, d) ==
    /\ IsSome(d.reason)
    /\ \E i \in DOMAIN text :
          /\ text[i] # <<>>
          /\ Head(text[i]) = "Reason: {}"
          /\ text[i][2] = Unwrap(d.reason)
ListsRecommendations(text) ==
    \/ HasLine(text, "## Top Recommendations")
    \/ HasLine(text, "- {}: {} (impact: {:?}, effort: {:?}, risk: {:?}, confidence: {:.2})")
    \/ HasLine(text, "- No recommendations available.")
ShowsRecentTraceGate(text, t) ==
    \E i \in DOMAIN text :
        text[i] = <<"Need at least {} recent traces before computing optimize deltas.",
                    t.min_traces>>
ListedOnlyWithComparison ==
    ListsRecommendations(Text) => D.status \in {Improvement, Regression, Neutral}

\* C19 as stated: for a delta whose status is InsufficientData the report
\* contains the delta's reason and no recommendation listing, whatever the scan
\* statistics are; recommendations are listed only for Improvement, Regression
\* or Neutral.
C19_ReasonAlwaysShown_Original ==
    rendered # None =>
        /\ D.status = InsufficientData =>
              ShowsReasonOf(Text, D) /\ ~ListsRecommendations(Text)
        /\ ListedOnlyWithComparison

\* C19 (amended): for a delta whose status is InsufficientData the report
\* contains no recommendation listing, whatever the scan statistics are, and
\* contains the delta's reason when the scan counted at least min_traces recent
\* records; when it counted fewer, the report states the number of recent
\* traces needed instead and shows neither the delta's reason nor
\* recommendations.  Recommendations are listed only for Improvement,
\* Regression or Neutral.
C19_ReasonShownPastTraceGate ==
    rendered # None =>
        /\ D.status = InsufficientData =>
              /\ ~ListsRecommendations(Text)
              /\ Stats.recent >= T.min_traces => ShowsReasonOf(Text, D)
        /\ Stats.recent < T.min_traces =>
              /\ ShowsRecentTraceGate(Text, T)
              /\ ~HasLine(Text, "Reason: {}")
              /\ ~ListsRecommendations(Text)
        /\ ListedOnlyWithComparison

\* two recent records of one revision with min_traces = 2: the delta is
\* InsufficientData and its reason is in the report
C19_Witness ==
    /\ rendered # None
    /\ D.status = InsufficientData
    /\ T.min_traces = 2
    /\ Stats.recent >= T.min_traces
    /\ ShowsReasonOf(Text, D)
    /\ ~ListsRecommendations(Text)


\* the lines of the trace file that are not blank
NonEmptyLines == {i \in DOMAIN trace_lines : trace_lines[i].kind # "blank"}
\* the JSON or the timestamp of the line does not parse
IsMalformedLine(line) ==
    line.kind \in {"invalid_utf8", "bad_json"} \/ (line.kind = "record" /\ line.timestamp = None)
\* the age of the record is at least trace_staleness_days + 1 full days
IsStaleLine(line) ==
    /\ ~IsMalformedLine(line)
    /\ Now - Unwrap(line.timestamp) >= (T.trace_staleness_days + 1) * HalfDaysPerDay
IsRecentLine(line) == ~IsMalformedLine(line) /\ ~IsStaleLine(line)
IsCompleteLine(line) == IsSome(line.task_id) /\ IsSome(line.revision) /\ IsSome(line.outcome)
CountLines(P(_)) == Cardinality({i \in NonEmptyLines : P(trace_lines[i])})
CompleteRecentLines ==
    SelectSeq(trace_lines,
              LAMBDA line : line.kind = "record" /\ IsRecentLine(line) /\ IsCompleteLine(line))

\* the counts of a scan that returned, and what it hands on
ScanCountsEveryLineOnce ==
    /\ Stats.malformed = CountLines(IsMalformedLine)
    /\ Stats.stale = CountLines(IsStaleLine)
    /\ Stats.recent = CountLines(IsRecentLine)
    /\ Stats.recent + Stats.stale + Stats.malformed = Cardinality(NonEmptyLines)
    /\ Len(traces) = Len(CompleteRecentLines)
    /\ \A i \in DOMAIN traces :
          /\ traces[i].timestamp = Unwrap(CompleteRecentLines[i].timestamp)
          /\ traces[i].task_id = Unwrap(CompleteRecentLines[i].task_id)
          /\ traces[i].revision = Unwrap(CompleteRecentLines[i].revision)
          /\ traces[i].outcome = Unwrap(CompleteRecentLines[i].outcome)
    /\ D = compute_optimize_delta(traces, T)
    /\ Stats.malformed > 0 =>
          \E i \in DOMAIN Text :
              Text[i] = <<"Warning: ignored malformed trace records: {}", Stats.malformed>>

\* C20: scan_traces never fails because of the content of a line: every line
\* that is not blank is counted in exactly one of malformed (its JSON or its
\* timestamp does not parse), stale (its age in whole days is greater than
\* trace_staleness_days) or recent, so the three counts add up to the number
\* of such lines; a recent record without task_id, revision or outcome is
\* counted in recent but not handed to revision aggregation, and the report
\* shows a warning with the malformed count whenever that count is above 0.
C20_ScanCountsEveryLine ==
    scan # None => Unwrap(scan).kind = "Ok" /\ ScanCountsEveryLineOnce

----------------------------------------------------------------------------
(* C21, C23, C24: the analyze, lint and suggest commands *)

Outcome == Unwrap(cli_outcome)
\* the three configuration files merged, later files overriding earlier ones
MergedTable ==
    LET layer(file) == IF file = None THEN EmptyTable ELSE Unwrap(file)
    IN  [p \in DOMAIN layer(config_files.global) \cup DOMAIN layer(config_files.repo)
               \cup DOMAIN layer(config_files.local) |->
            IF p \in DOMAIN layer(config_files.local) THEN layer(config_files.local)[p]
            ELSE IF p \in DOMAIN layer(config_files.repo) THEN layer(config_files.repo)[p]
            ELSE layer(config_files.global)[p]]
\* the repository has a harness.toml and the merged configuration violates
\* HarnessConfig::validate
MergedConfigIsInvalid ==
    /\ config_files.repo # None
    /\ try_into(MergedTable).kind = "Ok"
    /\ HarnessConfig_validate(try_into(MergedTable).value).kind = "Err"

\* C21: when the merged configuration (global file, then harness.toml, then
\* .harness/local.toml) violates HarnessConfig::validate, loading it fails with
\* a ConfigParse error: analyze exits with code 3 and prints no report.
C21_InvalidConfigIsRejected ==
    (cli_outcome # None /\ cli_args.name = "analyze" /\ worktree.path = "git"
        /\ MergedConfigIsInvalid) =>
        /\ Outcome.result.kind = "Err"
        /\ Outcome.result.error.kind = "ConfigParse"
        /\ process_exit(Outcome.result) = RUNTIME_FAILURE
        /\ Outcome.printed = None

\* the tool signals that scan::discover hands to analyze in this run
ToolSignals == detect_tools(Outcome.loaded)
\* no risky overlap cluster, no unrestricted destructive tool, no ambiguous
\* duplicate and at most 12 tools
NoToolPressure ==
    /\ ToolSignals.risky_overlap_clusters = 0
    /\ ToolSignals.unrestricted_destructive = 0
    /\ ~ToolSignals.has_ambiguous_duplicates
    /\ Len(ToolSignals.tool_names) <= 12
PrintsRecommendation(id) ==
    \E i \in DOMAIN Unwrap(Outcome.printed).recommendations :
        Unwrap(Outcome.printed).recommendations[i].id = id

\* C23: a run of analyze or suggest whose tool signals show no pressure (no
\* risky overlap cluster, no unrestricted destructive tool, no ambiguous
\* duplicate, at most 12 tools), as with the default tool list used without
\* configuration, does not emit the recommendation rec.tools.prune.
C23_NoPruneWithoutToolPressure ==
    (cli_outcome # None /\ cli_args.name \in {"analyze", "suggest"}
        /\ Outcome.printed # None /\ NoToolPressure) =>
        ~PrintsRecommendation(RecToolsPrune)

\* the findings of the run, as printed
Findings == Unwrap(Outcome.printed).findings
HasBlockingFinding == \E i \in DOMAIN Findings : Findings[i].blocking
ConfigurationMissing == Outcome.loaded = None
\* the same invocation with the other value of --min-impact
OtherMinImpact ==
    [cli_args EXCEPT !.min_impact = IF @ = "Safe" THEN "All" ELSE "Safe"]

\* C24: a run of analyze or lint that reaches its findings exits with code 2
\* exactly when some finding is blocking; otherwise with code 1 exactly when
\* there is a finding or (for analyze) the configuration is missing;
\* otherwise with code 0.  A run without configuration never exits with
\* code 0, and --min-impact does not change the exit code of analyze.
C24_ExitCodeFollowsFindings ==
    (cli_outcome # None /\ cli_args.name \in {"analyze", "lint"}
        /\ Outcome.result.kind = "Ok") =>
        LET code == process_exit(Outcome.result) IN
        /\ code \in {SUCCESS, WARNINGS, BLOCKING}
        /\ code = BLOCKING <=> HasBlockingFinding
        /\ code = WARNINGS <=>
              /\ ~HasBlockingFinding
              /\ Findings # <<>> \/ (cli_args.name = "analyze" /\ ConfigurationMissing)
        /\ ConfigurationMissing => code # SUCCESS
        /\ cli_args.name = "analyze" =>
              run_analyze(OtherMinImpact, worktree, config_files).result = Outcome.result

C24_Witness ==
    /\ cli_outcome # None
    /\ cli_args = [name |-> "analyze", min_impact |-> "Safe"]
    /\ Outcome.result = Okay(BLOCKING)
    /\ Len(Findings) >= 2
    /\ Len(Unwrap(Outcome.printed).recommendations) = 1



----------------------------------------------------------------------------
(* C22, C30: the apply command *)

\* the loaded configuration lists apply_patch under tools.deprecated.disabled
ApplyPatchIsDisabled ==
    /\ apply_loaded # None
    /\ Unwrap(apply_loaded).tools # None
    /\ Unwrap(Unwrap(apply_loaded).tools).deprecated # None
    /\ \E i \in DOMAIN Unwrap(Unwrap(Unwrap(apply_loaded).tools).deprecated).disabled :
          Unwrap(Unwrap(Unwrap(apply_loaded).tools).deprecated).disabled[i] = ApplyPatch

\* C22: when the loaded configuration lists apply_patch under
\* tools.deprecated.disabled, the apply command fails and writes nothing; once
\* the working tree is accepted and the plan is resolved (as with --allow-dirty
\* and --plan-all in preview mode) the failure is ForbiddenToolAccess.
C22_DisabledApplyPatchIsRejected ==
    (apply_pc = "returned" /\ ApplyPatchIsDisabled) =>
        /\ WriteIndexes = {}
        /\ Unwrap(apply_result).kind = "Err"
        /\ (apply_cmd.allow_dirty /\ PlanIsResolved) =>
              Unwrap(apply_result).error.kind = "ForbiddenToolAccess"

\* the lists of ids a second run may be given for the plan of the first run:
\* the same list, the list with every id twice, the list with an unknown id
SamePlanAgain ==
    {apply_plan, apply_plan \o apply_plan, <<UnknownId>> \o apply_plan,
     apply_plan \o <<UnknownId>>}

ApplyCompleted == apply_pc = "returned" /\ apply_result = Some(Okay("apply complete"))

\* C30: once execute_apply has written every change planned for a list of
\* recommendation ids, build_changes finds nothing to change for the same
\* ids, with or without duplicates or unknown ids; and a run of execute_apply
\* whose change set is empty returns the no-op message without any write
C30_SecondApplyIsNoOp ==
    /\ ApplyCompleted =>
          \A ids \in SamePlanAgain : build_changes(apply_world.files, ids) = <<>>
    /\ (apply_pc = "returned" /\ PassedAt("build_changes") > 0 /\ apply_changes = <<>>) =>
          /\ WriteIndexes = {}
          /\ PassedAt("validate") > 0 =>
                apply_result = Some(Okay("no-op: no changes required"))

C30_Witness ==
    /\ ApplyCompleted
    /\ Len(apply_plan) = 3
    /\ Len(apply_changes) = 3
    /\ apply_steps[Len(apply_steps)].path = AgentsPath


----------------------------------------------------------------------------
(* C25: the command policy built from a configuration *)

Range(seq) == {seq[i] : i \in DOMAIN seq}
\* the lists of the [tools] table of the configuration, empty when absent
ToolsTable == IF config = None \/ Unwrap(config).tools = None THEN <<>>
              ELSE <<Unwrap(Unwrap(config).tools)>>
BaselineForbidden ==
    UNION {IF t.baseline = None THEN {} ELSE Range(Unwrap(t.baseline).forbidden) :
           t \in Range(ToolsTable)}
DisabledTools ==
    UNION {IF t.deprecated = None THEN {} ELSE Range(Unwrap(t.deprecated).disabled) :
           t \in Range(ToolsTable)}
OnlyDeprecatedTools ==
    UNION {IF t.deprecated = None THEN {}
           ELSE Range(Unwrap(t.deprecated).deprecated) \cup Range(Unwrap(t.deprecated).observe) :
           t \in Range(ToolsTable)} \ (BaselineForbidden \cup DisabledTools)
ConfiguredAliases ==
    IF ToolsTable = <<>> \/ ToolsTable[1].aliases = None THEN EmptyAliases
    ELSE Unwrap(ToolsTable[1].aliases)
BuiltPolicy == policy_from_config(config)

\* the policy keeps the four default rules, adds the non-empty entries of
\* tools.baseline.forbidden and tools.deprecated.disabled and the entries of
\* tools.aliases, and nothing else
PolicyIsBuiltFromConfig ==
    /\ SubSeq(BuiltPolicy.forbidden, 1, 4) = DefaultForbidden
    /\ Len(DefaultForbidden) = 4
    /\ Range(BuiltPolicy.forbidden) =
          Range(DefaultForbidden) \cup ((BaselineForbidden \cup DisabledTools) \ {<<>>})
    /\ BuiltPolicy.aliases = ConfiguredAliases
    /\ \A tool \in OnlyDeprecatedTools :
          tool \in Range(BuiltPolicy.forbidden) => tool \in Range(DefaultForbidden)

\* alias expansion rewrites the command: its first token is an alias
IsRewritten(command) ==
    TokensOf(command) # <<>> /\ TokensOf(command)[1] \in DOMAIN ConfiguredAliases
\* the command is a disabled tool
IsDisabledTool(command) == command \in DisabledTools /\ TokensOf(command) # <<>>
\* the command is a tool listed only as deprecated or observed, and no rule
\* of the configuration or of the defaults matches it
IsOnlyDeprecatedTool(command) ==
    /\ command \in OnlyDeprecatedTools
    /\ ~MatchedBy(TokensOf(command), BuiltPolicy.forbidden)

----------------------------------------------------------------------------
(* C27: alias chains and rule matching *)

\* the first token of a command, <<>> when it has none
HeadToken(command) == IF TokensOf(command) = <<>> THEN <<>> ELSE TokensOf(command)[1]
BeginsWithAlias(command, aliases) == HeadToken(command) \in DOMAIN aliases
\* the alias keys among the tokens of the expansions of keys: any of them can
\* become the head once the tokens before it have expanded to nothing
LinkedKeys(keys, aliases) ==
    UNION {{TokensOf(aliases[k])[i] : i \in DOMAIN TokensOf(aliases[k])} : k \in keys}
        \cap DOMAIN aliases
RECURSIVE ReachableKeys(_, _, _)
ReachableKeys(keys, aliases, links) ==
    IF links = 0 THEN keys
    ELSE ReachableKeys(keys \cup LinkedKeys(keys, aliases), aliases, links - 1)
\* no alias key leads back to itself
Acyclic(aliases) ==
    \A k \in DOMAIN aliases :
        k \notin ReachableKeys(LinkedKeys({k}, aliases), aliases, Cardinality(DOMAIN aliases))

RECURSIVE ResolvedTokens(_, _)
\* the tokens of the command with its alias chain followed to the end
ResolvedTokens(tokens, aliases) ==
    IF tokens = <<>> \/ tokens[1] \notin DOMAIN aliases THEN tokens
    ELSE ResolvedTokens(TokensOf(aliases[tokens[1]]) \o Tail(tokens), aliases)
RECURSIVE ChainHeads(_, _)
\* the aliases of the chain that starts at the head of the command, in order
ChainHeads(tokens, aliases) ==
    IF tokens = <<>> \/ tokens[1] \notin DOMAIN aliases THEN <<>>
    ELSE <<tokens[1]>> \o ChainHeads(TokensOf(aliases[tokens[1]]) \o Tail(tokens), aliases)
ChainLength(tokens, aliases) == Len(ChainHeads(tokens, aliases))
\* the chain meets no alias twice (an alias with an empty expansion makes the
\* next argument the head, which can be an alias met before)
ChainHasDistinctAliases(tokens, aliases) ==
    LET heads == ChainHeads(tokens, aliases)
    IN  \A i, j \in DOMAIN heads : heads[i] = heads[j] => i = j

\* the command that is_forbidden_with_policy hands to rule matching
HandedToMatching == expand_aliases(normalize(cmd), policy.aliases)

\* C27 as stated: with an alias map without cycles the command handed to rule
\* matching never begins with an alias key, whatever the length of the chain,
\* and a command whose chain ends in a forbidden command is forbidden.
C27_ChainsResolvedCompletely_Original ==
    (IsSome(verdict) /\ Acyclic(policy.aliases)) =>
        /\ ~BeginsWithAlias(HandedToMatching, policy.aliases)
        /\ MatchedBy(ResolvedTokens(TokensOf(cmd), policy.aliases), policy.forbidden) =>
              Unwrap(verdict)

\* C27, amended: with an alias map without cycles, a command whose alias
\* chain has at most 8 aliases and meets no alias twice is handed to rule
\* matching completely resolved, and when its chain ends in a forbidden
\* command it is forbidden.
C27_ChainsUpToEightResolved ==
    (IsSome(verdict) /\ Acyclic(policy.aliases)
        /\ ChainLength(TokensOf(cmd), policy.aliases) <= MaxAliasHops
        /\ ChainHasDistinctAliases(TokensOf(cmd), policy.aliases)) =>
        /\ ~BeginsWithAlias(HandedToMatching, policy.aliases)
        /\ TokensOf(HandedToMatching) = ResolvedTokens(TokensOf(cmd), policy.aliases)
        /\ MatchedBy(ResolvedTokens(TokensOf(cmd), policy.aliases), policy.forbidden) =>
              Unwrap(verdict)

\* a chain of exactly 8 aliases that ends in the forbidden command
C27_Witness ==
    /\ verdict = Some(TRUE)
    /\ Acyclic(policy.aliases)
    /\ ChainLength(TokensOf(cmd), policy.aliases) = MaxAliasHops
    /\ ~MatchedBy(TokensOf(cmd), policy.forbidden)

====
